---------------------------- MODULE Spec2Model ----------------------------
(***************************************************************************)
(* Order / payment / inventory consistency of the shop backend.            *)
(*                                                                         *)
(* Two groups of state are modelled.  The stock ledger: one WarehouseStock *)
(* row (a warehouse x product pair) with the request handlers that load    *)
(* the row, change the loaded instance and save it.  The payment engine:   *)
(* MpesaTransaction rows, the orders they pay, the status history, the     *)
(* callback log, and the handlers (STK callback, timeout notification,     *)
(* on-demand status query, periodic sweep) that load a transaction, talk   *)
(* to the provider and save the loaded instance.                           *)
(*                                                                         *)
(* Model.save() writes every field of the in-memory instance, so a handler *)
(* that saves an instance loaded earlier overwrites whatever was committed *)
(* in between.  No handler takes a row lock or opens a transaction.        *)
(***************************************************************************)
EXTENDS Integers, Sequences, FiniteSets, Bags, TLC

\* ------------------------------------------------------------------ bounds
MaxQty == 3          \* largest on-hand quantity and largest request size
NumCallers == 2      \* concurrent reserve requests
MaxMovements == 1    \* StockMovement rows kept
NumOrders == 1       \* orders being paid
MaxTxns == 2         \* MpesaTransaction rows created
MaxHistory == 2      \* OrderStatusHistory rows kept
MaxCallbacks == 2    \* STK callbacks delivered
NumHandlers == 2     \* payment handlers running at the same time
OrderItemQty == 1    \* quantity of the order's first line item
ReorderPoint == 2    \* reorder_point of the stock row
MaxOnHand == 5       \* on-hand quantity up to which the save chain is followed
MaxSyncRounds == 2   \* nested increases of a save chain before the recursion limit
NumWarehouses == 2   \* warehouses that stock the second product
MaxPriority == 1     \* Warehouse.priority is 0..MaxPriority
MaxSplit == 5        \* largest quantity asked of split_order_across_warehouses
MaxRetryTxns == 4    \* MpesaTransaction rows while retries are followed
MaxPlaced == 2       \* orders created by checkout
NumTransfers == 2    \* InventoryTransfer rows created
MaxTransferQty == 2  \* largest quantity of a TransferItem
MaxTransferMovements == 2 \* StockMovement rows kept while transfers run
MaxPlacedHistory == 3 \* OrderStatusHistory rows kept of an order checkout created
MaxTokens == 4       \* access tokens the provider issues
MaxSales == 4        \* sale StockMovement rows kept

Callers == 1..NumCallers

VARIABLES
    stock,       \* the WarehouseStock row as committed in the database
    movements,   \* StockMovement rows, oldest first
    req,         \* reserve request handlers: position, loaded instance, answer
    avail0,      \* available_quantity of the row before any request ran
    txns,        \* MpesaTransaction rows, indexed by primary key
    orders,      \* Order rows: status, payment_status, payment_id
    history,     \* OrderStatusHistory rows, oldest first
    callbacks,   \* MpesaCallback rows (the callback log), oldest first
    jobs,        \* payment handlers in flight (a bag): the STK callback, the
                 \* status query and the sweep task between load and save
    http,        \* the response to the last request an endpoint answered
    token,       \* the provider access token: the cache entry, the
                 \* MpesaAccessToken row, the requests sent to the provider
                 \* and the callers of get_access_token
    product,     \* Product.stock_quantity of the product the row keeps
    placed,      \* the orders checkout created, with their OrderItem rows
    alerts,      \* StockAlert rows of the warehouse row that are unresolved
    warehouses,  \* a second product's stock rows, one per warehouse, each
                 \* with its warehouse's is_active and priority
    picked,      \* the last call of find_warehouse_with_stock: the quantity
                 \* asked for and the warehouse returned (0 for None)
    split,       \* the last call of split_order_across_warehouses: the
                 \* quantity asked for, the allocation list and the flag
    transfers,   \* InventoryTransfer rows out of the row's warehouse, each
                 \* with the quantity of its TransferItem of the product
    to_stock     \* the product's WarehouseStock row in the warehouse the
                 \* transfers go to: whether it exists, and its quantity

transferVars == <<transfers, to_stock>>
selectVars == <<warehouses, picked, split, transferVars>>
shopVars == <<product, placed, alerts, selectVars>>
restVars == <<http, token, shopVars>>
apiVars == <<http, token, placed, selectVars>>
stockVars == <<stock, movements, req, avail0, restVars>>
payVars == <<txns, orders, history, callbacks, jobs>>
vars == <<stock, movements, req, avail0, txns, orders, history,
          callbacks, jobs, http, token, product, placed, alerts,
          warehouses, picked, split, transfers, to_stock>>

\* ------------------------------------------------------------ stock ledger
Max(a, b) == IF a >= b THEN a ELSE b

\* WarehouseStock.available_quantity
available_quantity(s) ==
    Max(0, s.quantity - s.reserved_quantity - s.damaged_quantity)

\* a faulty variant of reserve_ok: damaged units count as available
reserve_ok_with_damaged(s, q) == s.quantity - s.reserved_quantity >= q

\* WarehouseStock.reserve_stock: TRUE when the check on the instance passes
reserve_ok(s, q) == available_quantity(s) >= q

\* WarehouseStock.reserve_stock: the instance after the call
reserve_stock(s, q) ==
    IF reserve_ok(s, q)
    THEN [s EXCEPT !.reserved_quantity = s.reserved_quantity + q]
    ELSE s

\* a faulty variant of release_reservation: the subtraction is not clamped
release_unclamped(s, q) ==
    [s EXCEPT !.reserved_quantity = s.reserved_quantity - q]

\* WarehouseStock.release_reservation
release_reservation(s, q) ==
    [s EXCEPT !.reserved_quantity = Max(0, s.reserved_quantity - q)]

\* WarehouseStock.fulfill_reservation
fulfill_reservation(s, q) ==
    [s EXCEPT !.reserved_quantity = Max(0, s.reserved_quantity - q),
              !.quantity = Max(0, s.quantity - q)]

\* StockMovement.objects.create(...)
Movement(type, delta, before, after) ==
    [movement_type |-> type, quantity |-> delta,
     quantity_before |-> before, quantity_after |-> after]

\* rows a test fixture or the admin can create: the validators of the three
\* counters hold and reserved + damaged fits in the on-hand quantity
StockRows ==
    {s \in [quantity : 0..MaxQty, reserved_quantity : 0..MaxQty,
            damaged_quantity : 0..MaxQty] :
        s.reserved_quantity + s.damaged_quantity <= s.quantity}

IdleReq == [pc |-> "idle", quantity |-> 0, inst |-> <<>>, ok |-> FALSE]

\* no payment has been initiated: every order is as checkout created it
InitPayRows ==
    /\ txns = <<>>
    /\ orders = [o \in 1..NumOrders |->
                    [status |-> "pending", payment_status |-> "pending",
                     payment_id |-> 0, tracking_number |-> "", held |-> 0]]
    /\ history = <<>>
    /\ callbacks = <<>>
    /\ jobs = EmptyBag

\* no request has been answered yet
NoResponse == [endpoint |-> "", status_code |-> 0, body |-> <<>>]

\* get_access_token has no caller; nothing is cached and no row is stored
IdleCaller == [pc |-> "idle", token |-> 0]

NoToken ==
    [cache |-> 0, row |-> 0, issued |-> 0, sent |-> 0,
     callers |-> [c \in Callers |-> IdleCaller]]

\* find_warehouse_with_stock has not been called
NotPicked == [quantity_needed |-> 0, warehouse |-> 0]

\* split_order_across_warehouses has not been called
NotSplit == [quantity_needed |-> 0, allocation |-> <<>>, ok |-> FALSE]

\* the product has no row in the destination warehouse
NoRow == [exists |-> FALSE, quantity |-> 0]

InitStockRows ==
    /\ movements = <<>>
    /\ req = [c \in Callers |-> IdleReq]
    /\ avail0 = available_quantity(stock)
    /\ http = NoResponse
    /\ token = NoToken
    /\ product = [stock_quantity |-> stock.quantity]
    /\ placed = <<>>
    /\ alerts = {}
    /\ warehouses = <<>>
    /\ picked = NotPicked
    /\ split = NotSplit
    /\ transfers = <<>>
    /\ to_stock = NoRow

InitStock ==
    /\ stock \in StockRows
    /\ InitStockRows
    /\ InitPayRows

\* ----------------------------------------------------------- the save chain
Alert(type, current, threshold) ==
    [alert_type |-> type, current_quantity |-> current,
     threshold_quantity |-> threshold]

has_alert(al, type) == \E a \in al : a.alert_type = type

\* check_stock_levels: the unresolved alerts after a save of the row s
check_stock_levels(al, s) ==
    LET levels ==
            IF s.quantity = 0
            THEN IF has_alert(al, "out_of_stock") THEN al
                 ELSE al \cup {Alert("out_of_stock", 0, ReorderPoint)}
            ELSE IF s.quantity <= ReorderPoint /\ ReorderPoint > 0
            THEN IF has_alert(al, "low_stock") THEN al
                 ELSE al \cup {Alert("low_stock", s.quantity, ReorderPoint)}
            ELSE {a \in al : a.alert_type \notin {"low_stock", "out_of_stock"}}
    IN IF s.damaged_quantity > 0 /\ ~has_alert(levels, "damaged")
       THEN levels \cup {Alert("damaged", s.damaged_quantity, 0)}
       ELSE levels

\* sync_warehouse_stock (handle_stock_increase, handle_stock_decrease): the
\* warehouse row after the post_save of a product whose stock_quantity was
\* `old` in the database and is saved as `new`
sync_warehouse_stock(s, old, new) ==
    IF new > old THEN [s EXCEPT !.quantity = s.quantity + (new - old)]
    ELSE IF new < old /\ s.quantity > 0
    THEN [s EXCEPT !.quantity =
             s.quantity - (IF s.quantity < old - new THEN s.quantity
                           ELSE old - new)]
    ELSE s

\* sync_warehouse_stock: TRUE when it saves the warehouse row
sync_saves_row(s, old, new) == new > old \/ (new < old /\ s.quantity > 0)

\* where the interpreter's recursion limit can end a chain of nested saves:
\* inside product.save() before the product is written, or inside the save
\* of the warehouse row before the row is written
AbortModes == {"product", "row"}

\* the receivers of a saved WarehouseStock row s (check_stock_levels,
\* update_product_stock_on_warehouse_change) and of the product they save
\* (track_stock_changes, sync_warehouse_stock), followed to the end of the
\* chain: p is the product's stock_quantity in the database, n the number of
\* nested increases the recursion limit leaves room for
RECURSIVE warehouse_stock_saved(_, _, _, _, _)
RECURSIVE product_stock_saved(_, _, _, _, _, _)
warehouse_stock_saved(s, p, al, n, mode) ==
    product_stock_saved(s, p, s.quantity, check_stock_levels(al, s), n, mode)

\* product.save(update_fields=['stock_quantity']) with the value `new` while
\* the database holds p
product_stock_saved(s, p, new, al, n, mode) ==
    IF new = p
    THEN [stock |-> s, product |-> [stock_quantity |-> p], alerts |-> al]
    ELSE IF new > p /\ n = 0 /\ mode = "product"
    THEN [stock |-> s, product |-> [stock_quantity |-> p], alerts |-> al]
    ELSE IF ~sync_saves_row(s, p, new) \/ (new > p /\ n = 0)
    THEN [stock |-> s, product |-> [stock_quantity |-> new], alerts |-> al]
    ELSE warehouse_stock_saved(sync_warehouse_stock(s, p, new), new, al,
                               IF new > p THEN n - 1 ELSE n, mode)

\* the outcomes of WarehouseStock.save() of the row s
saved_rows(s, p, al) ==
    {warehouse_stock_saved(s, p.stock_quantity, al, n, mode) :
        n \in 1..MaxSyncRounds, mode \in AbortModes}

\* sync_product_total_stock: a created StockMovement has the product's
\* stock_quantity recomputed from the row and saved
movement_created(saved) ==
    {product_stock_saved(saved.stock, saved.product.stock_quantity,
                         saved.stock.quantity, saved.alerts, n, mode) :
        n \in 1..MaxSyncRounds, mode \in AbortModes}

\* WarehouseStock.save() of the row s in a handler
RowSaved(s) ==
    \E saved \in saved_rows(s, product, alerts) :
        /\ saved.stock.quantity <= MaxOnHand
        /\ stock' = saved.stock
        /\ product' = saved.product
        /\ alerts' = saved.alerts

\* WarehouseStock.save() of the row s followed by StockMovement.objects.create
RowSavedAndRecorded(s) ==
    \E saved \in saved_rows(s, product, alerts) :
        \E synced \in movement_created(saved) :
            /\ synced.stock.quantity <= MaxOnHand
            /\ stock' = synced.stock
            /\ product' = synced.product
            /\ alerts' = synced.alerts

\* WarehouseStockViewSet.reserve, first half: get_object() loads the row and
\* the request quantity is validated
ReserveLoad(c, q) ==
    /\ req[c].pc = "idle"
    /\ q > 0
    /\ req' = [req EXCEPT ![c] = [pc |-> "loaded", quantity |-> q,
                                  inst |-> stock, ok |-> FALSE]]
    /\ UNCHANGED <<stock, movements, avail0, restVars, payVars>>

\* WarehouseStockViewSet.reserve, second half: reserve_stock() on the loaded
\* instance; a passing check saves the whole instance
ReserveSave(c) ==
    /\ req[c].pc = "loaded"
    /\ LET s == req[c].inst
           q == req[c].quantity
       IN /\ IF reserve_ok(s, q) THEN RowSaved(reserve_stock(s, q))
             ELSE UNCHANGED <<stock, product, alerts>>
          /\ req' = [req EXCEPT ![c] = [pc |-> "done", quantity |-> q,
                                        inst |-> reserve_stock(s, q),
                                        ok |-> reserve_ok(s, q)]]
    /\ UNCHANGED <<movements, avail0, apiVars, payVars>>

\* WarehouseStockViewSet.reserve run without interruption: reserve_stock(q)
\* on a freshly loaded row
Reserve(q) ==
    /\ IF reserve_ok(stock, q) THEN RowSaved(reserve_stock(stock, q))
       ELSE UNCHANGED <<stock, product, alerts>>
    /\ UNCHANGED <<movements, req, avail0, apiVars, payVars>>

\* release_reservation(q) on a freshly loaded row
Release(q) ==
    /\ RowSaved(release_reservation(stock, q))
    /\ UNCHANGED <<movements, req, avail0, apiVars, payVars>>

\* fulfill_reservation(q) on a freshly loaded row
Fulfill(q) ==
    /\ RowSaved(fulfill_reservation(stock, q))
    /\ UNCHANGED <<movements, req, avail0, apiVars, payVars>>

\* WarehouseStockViewSet.adjust_stock
AdjustStock(adjustment) ==
    /\ Len(movements) < MaxMovements
    /\ stock.quantity + adjustment \in (0 - MaxQty)..MaxQty
    /\ RowSavedAndRecorded([stock EXCEPT
                               !.quantity = stock.quantity + adjustment])
    /\ movements' = Append(movements,
                           Movement("adjustment", adjustment, stock.quantity,
                                    stock.quantity + adjustment))
    /\ UNCHANGED <<req, avail0, apiVars, payVars>>

\* BulkInventoryOperationsView.post, one update of the list
BulkUpdate(new_quantity) ==
    /\ Len(movements) < MaxMovements
    /\ RowSavedAndRecorded([stock EXCEPT !.quantity = new_quantity])
    /\ movements' = Append(movements,
                           Movement("adjustment", new_quantity - stock.quantity,
                                    stock.quantity, new_quantity))
    /\ UNCHANGED <<req, avail0, apiVars, payVars>>

\* update_stock_after_count: a StockCountItem saved with a counted quantity
\* that differs from the expected one overwrites the on-hand quantity
StockCount(expected_quantity, counted_quantity) ==
    /\ counted_quantity - expected_quantity # 0
    /\ RowSaved([stock EXCEPT !.quantity = counted_quantity])
    /\ UNCHANGED <<movements, req, avail0, apiVars, payVars>>

NextReserve ==
    \/ \E c \in Callers, q \in 1..MaxQty : ReserveLoad(c, q)
    \/ \E c \in Callers : ReserveSave(c)

NextStock ==
    \/ \E q \in 1..MaxQty : Reserve(q)
    \/ \E q \in 1..MaxQty : Release(q)
    \/ \E q \in 1..MaxQty : Fulfill(q)
    \/ \E a \in (0 - MaxQty)..MaxQty : AdjustStock(a)
    \/ \E n \in 0..MaxQty : BulkUpdate(n)
    \/ \E e \in 0..MaxQty, n \in 0..MaxQty : StockCount(e, n)

\* the three reservation calls of the ledger on one row
NextReservation ==
    \/ \E q \in 1..MaxQty : Reserve(q)
    \/ \E q \in 1..MaxQty : Release(q)
    \/ \E q \in 1..MaxQty : Fulfill(q)

SpecReserve == InitStock /\ [][NextReserve]_vars
SpecReservation == InitStock /\ [][NextReservation]_vars
SpecStock == InitStock /\ [][NextStock]_vars


\* ---------------------------------------------------------- payment engine
OrderIds == 1..NumOrders

\* a null column
Null == <<>>

\* MpesaTransaction.STATUS_CHOICES other than pending and processing
TerminalStatuses == {"completed", "failed", "cancelled", "timeout", "reversed"}

\* MpesaTransaction.max_retries default
max_retries == 3

\* MpesaTransaction.objects.create(..., status='processing') in
\* initiate_stk_push
NewTransaction(order) ==
    [status |-> "processing", checkout_request_id |-> 0,
     result_code |-> Null, mpesa_receipt_number |-> 0, order |-> order,
     retry_count |-> 0]

\* MpesaTransaction.is_pending
is_pending(t) == t.status \in {"pending", "processing"}

\* a faulty variant of can_retry: the status is not looked at
can_retry_any(t) == t.retry_count < max_retries

\* MpesaTransaction.can_retry
can_retry(t) == t.status = "failed" /\ t.retry_count < max_retries

\* MpesaTransaction.mark_completed, before save()
mark_completed(t, receipt) ==
    [t EXCEPT !.status = "completed", !.mpesa_receipt_number = receipt,
              !.result_code = <<0>>]

\* MpesaTransaction.mark_failed, before save()
mark_failed(t, code) ==
    [t EXCEPT !.status = "failed", !.result_code = <<code>>]

\* MpesaTransaction.objects.get(checkout_request_id=...): the matching keys
Lookup(cid) ==
    {k \in 1..Len(txns) : txns[k].checkout_request_id = cid}

\* int(result_code) of a provider status response
ToInt(code) ==
    CASE code = "0" -> 0
      [] code = "1" -> 1
      [] code = "1032" -> 1032
      [] code = "1037" -> 1037

\* the branch of handle_order_inventory an Order save enters
inventory_branch(old_status, new_status) ==
    IF old_status = "pending" /\ new_status \in {"confirmed", "processing"}
    THEN "reserve"
    ELSE IF old_status \in {"confirmed", "processing", "ready_to_ship"}
            /\ new_status = "shipped"
    THEN "fulfill"
    ELSE IF new_status \in {"cancelled", "refunded"}
    THEN "release"
    ELSE "none"

\* a faulty variant of order_save_raises: the receiver finds Warehouse
never_raises(old_status, new_status) == FALSE

\* Order.save() raises out of its post_save receivers: every branch of
\* handle_order_inventory starts with Warehouse.objects..., and the module
\* imports WarehouseStock, StockAlert, ... but not Warehouse (NameError).
\* The row is written before post_save runs and autocommit keeps it.
order_save_raises(old_status, new_status) ==
    inventory_branch(old_status, new_status) # "none"

\* the quantities of the order's line items, in the order of items.all();
\* both are lines of the product the warehouse row keeps
OrderItems == <<OrderItemQty, OrderItemQty + 1>>

\* handle_order_inventory: the body of its loop, for a line item of q units
item_stock(branch, s, q) ==
    CASE branch = "reserve" -> reserve_stock(s, q)
      [] branch = "fulfill" -> fulfill_reservation(s, q)
      [] branch = "release" -> release_reservation(s, q)
      [] OTHER -> s

\* handle_order_inventory: the loop over instance.items.all()
RECURSIVE items_stock(_, _, _)
items_stock(branch, s, items) ==
    IF items = <<>> THEN s
    ELSE items_stock(branch, item_stock(branch, s, Head(items)), Tail(items))

\* handle_order_inventory: the sale rows of the loop, each written after
\* fulfill_reservation from the row it left
RECURSIVE items_movements(_, _, _, _)
items_movements(branch, s, items, rows) ==
    IF items = <<>> \/ branch # "fulfill" THEN rows
    ELSE LET q == Head(items)
             after == fulfill_reservation(s, q)
         IN items_movements(branch, after, Tail(items),
                Append(rows, Movement("sale", 0 - q, after.quantity + q,
                                      after.quantity)))

\* the units the order's line items hold reserved after the loop (the code
\* keeps no such column; the orders' rows carry it so that a release can be
\* compared with what the order had reserved)
RECURSIVE items_held(_, _, _, _)
items_held(branch, h, s, items) ==
    IF items = <<>> THEN h
    ELSE LET q == Head(items)
         IN items_held(branch,
                CASE branch = "reserve" -> IF reserve_ok(s, q) THEN h + q ELSE h
                  [] branch \in {"fulfill", "release"} -> Max(0, h - q)
                  [] OTHER -> h,
                item_stock(branch, s, q), Tail(items))

\* handle_order_inventory: the warehouse row after an Order save
inventory_stock(s, old_status, new_status, items) ==
    IF order_save_raises(old_status, new_status) THEN s
    ELSE items_stock(inventory_branch(old_status, new_status), s, items)

\* handle_order_inventory: the StockMovement rows after an Order save
inventory_movements(s, old_status, new_status, items) ==
    IF order_save_raises(old_status, new_status) THEN movements
    ELSE items_movements(inventory_branch(old_status, new_status), s, items,
                         movements)

\* handle_order_inventory: the units the order holds after an Order save
inventory_held(h, s, old_status, new_status, items) ==
    IF order_save_raises(old_status, new_status) THEN h
    ELSE items_held(inventory_branch(old_status, new_status), h, s, items)

\* a faulty variant of status_after_payment: the order is never confirmed
status_kept(status) == status

\* MpesaCallbackProcessor._update_order_payment: the order status it sets
status_after_payment(status) ==
    IF status = "pending" THEN "confirmed" ELSE status

\* MpesaCallbackProcessor._update_order_payment: the order row it saves
paid_order(o, t) ==
    [o EXCEPT !.payment_status = "paid",
              !.payment_id = t.mpesa_receipt_number,
              !.status = status_after_payment(o.status)]

\* MpesaCallbackProcessor._update_order_payment: TRUE when order.save()
\* raises, so that the history row after it is not created
update_order_payment_raises(o) ==
    order_save_raises(o.status, status_after_payment(o.status))

\* MpesaCallbackProcessor._update_order_payment: the history after it
paid_history(k, o) ==
    IF update_order_payment_raises(o)
    THEN history
    ELSE Append(history, [order |-> k, old_status |-> o.payment_status,
                          new_status |-> "paid"])

\* result codes of the callbacks the provider posts: success, user cancelled
CallbackCodes == {0, 1032}

\* the payloads the provider posts to the callback endpoint: a result code
\* and, on success, the CallbackMetadata items (receipt number, date)
CallbackEvents ==
    [checkout_request_id : 1..MaxTxns, result_code : CallbackCodes]

\* the receipt number the provider issues for a checkout request
ReceiptOf(cid) == cid

\* what query_stk_status gives back: a ResultCode string, no ResultCode yet
\* ("none"), or a raised RequestException ("error"); has_params says whether
\* the response carries the receipt number and date in ResultParameter
QueryResponses ==
    [code : {"0", "1", "1032", "1037", "none", "error"}, has_params : BOOLEAN]

\* MpesaCallback.objects.create(...) and the fields set on it later
CallbackLog(ev, k, processed, error) ==
    [raw_payload |-> ev, transaction |-> k, is_processed |-> processed,
     processing_error |-> error]

\* a handler between its load and its save: the instances it loaded (one,
\* or the sweep's queryset), the callback it carries and its log row
Job(pc, batch, ev, n) == [pc |-> pc, batch |-> batch, event |-> ev, log |-> n]

Start(j) == jobs (+) SetToBag({j})
Finish(j) == jobs (-) SetToBag({j})

InitPay ==
    /\ stock = [quantity |-> 0, reserved_quantity |-> 0, damaged_quantity |-> 0]
    /\ InitStockRows
    /\ InitPayRows

\* _update_order_payment(transaction): the linked order is saved paid and
\* the history row is added
OrderPaid(done) ==
    LET o == done.order
    IN IF o = 0
       THEN UNCHANGED <<orders, history>>
       ELSE /\ update_order_payment_raises(orders[o])
                   \/ Len(history) < MaxHistory
            /\ orders' = [orders EXCEPT ![o] = paid_order(orders[o], done)]
            /\ history' = paid_history(o, orders[o])

\* the rows after `t` (an instance of row k) completed with `receipt`:
\* mark_completed saves the instance, then the linked order is paid
CompletedRows(k, t, receipt) ==
    /\ txns' = [txns EXCEPT ![k] = mark_completed(t, receipt)]
    /\ OrderPaid(mark_completed(t, receipt))

\* TRUE when applying a success to instance t raises after the rows are
\* written (the order save raising out of _update_order_payment)
CompletedRaises(t) ==
    t.order # 0 /\ update_order_payment_raises(orders[t.order])

\* initiate_stk_push: the row it leaves for what the provider does:
\* "accepted" (ResponseCode 0, a checkout request id is issued), "rejected"
\* (any other answer), "network_error" and "timeout" (requests.post raises a
\* requests.RequestException, a Timeout after 60 s being one), and
\* "token_error" (get_access_token raises on the token endpoint, after the
\* row was created and outside the try block: the row stays as created)
Initiated(order, answer, cid) ==
    LET t == NewTransaction(order)
    IN CASE answer = "accepted" -> [t EXCEPT !.checkout_request_id = cid]
         [] answer = "rejected" ->
                [t EXCEPT !.status = "failed", !.result_code = <<0 - 1>>]
         [] answer \in {"network_error", "timeout"} ->
                [t EXCEPT !.status = "failed"]
         [] answer = "token_error" -> t

\* TRUE when the initiation ends in an exception: no configuration is
\* active (MpesaAPIClient.__init__), or a network call raised
initiation_raises(answer) ==
    answer \in {"network_error", "timeout", "token_error", "no_configuration"}

\* the transactions after initiate_stk_push for order o; without an active
\* configuration no client exists and no row is created
txns_after_initiation(rows, o, answer) ==
    IF answer = "no_configuration" THEN rows
    ELSE Append(rows, Initiated(o, answer, Len(rows) + 1))

\* initiate_order_payment: TRUE when the order may be paid for
can_initiate(o) == o.payment_status \notin {"paid", "refunded"}

\* a faulty variant of order_after_initiation: a failure cancels the order
cancelled_on_failure(o, answer) ==
    IF answer = "accepted" THEN o ELSE [o EXCEPT !.status = "cancelled"]

\* initiate_order_payment: the order row after the call; only
\* payment_method is set, and only when initiate_stk_push returned
order_after_initiation(o, answer) == o

\* MpesaPaymentService.initiate_order_payment / InitiatePaymentView.post
InitiatePayment(o, answer) ==
    /\ Len(txns) < MaxTxns
    /\ can_initiate(orders[o])
    /\ txns' = txns_after_initiation(txns, o, answer)
    /\ orders' = [orders EXCEPT ![o] = order_after_initiation(orders[o], answer)]
    /\ UNCHANGED <<history, callbacks, jobs, stockVars>>

\* MpesaTransactionViewSet.retry; initiate_stk_push re-raises the network
\* error, so that increment_retry() is skipped
Retry(k, answer) ==
    /\ k \in 1..Len(txns)
    /\ Len(txns) < MaxTxns
    /\ can_retry(txns[k])
    /\ LET old == IF initiation_raises(answer) THEN txns[k]
                  ELSE [txns[k] EXCEPT !.retry_count = txns[k].retry_count + 1]
       IN txns' = txns_after_initiation([txns EXCEPT ![k] = old],
                                       txns[k].order, answer)
    /\ UNCHANGED <<orders, history, callbacks, jobs, stockVars>>

\* Order.ORDER_STATUS
ORDER_STATUS ==
    {"pending", "confirmed", "processing", "ready_to_ship", "shipped",
     "out_for_delivery", "delivered", "cancelled", "refunded", "on_hold"}

\* Order.is_cancellable
is_cancellable(o) ==
    o.status \notin {"delivered", "cancelled", "refunded", "shipped"}

\* OrderStatusHistory.objects.create(order, old_status, new_status)
StatusHistory(o, old_status, new_status) ==
    [order |-> o, old_status |-> old_status, new_status |-> new_status]

\* order.save() of a view: the row is written, then handle_order_inventory
\* runs on the committed row's previous status and the saved status
OrderSaved(o, row) ==
    LET old_status == orders[o].status
        new_status == row.status
    IN /\ Len(inventory_movements(stock, old_status, new_status,
                                  OrderItems)) <= MaxSales
       /\ orders' = [orders EXCEPT ![o] =
               [row EXCEPT !.held = inventory_held(row.held, stock, old_status,
                                                  new_status, OrderItems)]]
       /\ stock' = inventory_stock(stock, old_status, new_status, OrderItems)
       /\ movements' = inventory_movements(stock, old_status, new_status,
                                           OrderItems)

\* the history of a view that creates its row after order.save(): a save
\* that raises ends the view before the row is created
history_after_save(o, old_status, new_status, row) ==
    IF order_save_raises(old_status, new_status) THEN history
    ELSE Append(history, row)

\* a view that saves the order and then records the change
SavedThenRecorded(o, new_row, history_row) ==
    /\ \/ order_save_raises(orders[o].status, new_row.status)
       \/ Len(history) < MaxHistory
    /\ OrderSaved(o, new_row)
    /\ history' = history_after_save(o, orders[o].status, new_row.status,
                                     history_row)
    /\ UNCHANGED <<txns, callbacks, jobs, req, avail0, restVars>>

\* OrderViewSet.cancel: the row is saved cancelled, then the post_save
\* receiver raises, so neither the restock nor the history row happens
OrderCancel(o, refund) ==
    /\ is_cancellable(orders[o])
    /\ SavedThenRecorded(o,
          [orders[o] EXCEPT
              !.status = "cancelled",
              !.payment_status =
                  IF refund THEN "refunded" ELSE orders[o].payment_status],
          StatusHistory(o, orders[o].status, "cancelled"))

\* OrderViewSet.update_status (staff): any status of ORDER_STATUS is taken
UpdateStatus(o, new_status) ==
    /\ new_status \in ORDER_STATUS
    /\ SavedThenRecorded(o, [orders[o] EXCEPT !.status = new_status],
                         StatusHistory(o, orders[o].status, new_status))

\* OrderViewSet.add_tracking (staff): the order is shipped whatever its
\* status was, and the history row says it was processing
AddTracking(o, tracking_number) ==
    /\ tracking_number # ""
    /\ SavedThenRecorded(o,
          [orders[o] EXCEPT !.status = "shipped",
                            !.tracking_number = tracking_number],
          StatusHistory(o, "processing", "shipped"))

\* shipping_webhook: status_mapping of the carrier's status
status_mapping(carrier_status) ==
    CASE carrier_status = "delivered" -> "delivered"
      [] carrier_status = "out_for_delivery" -> "out_for_delivery"
      [] carrier_status = "exception" -> "on_hold"

\* shipping_webhook (AllowAny): the order is found by tracking number,
\* a blank one included
ShippingWebhook(o, tracking_number, carrier_status) ==
    /\ orders[o].tracking_number = tracking_number
    /\ SavedThenRecorded(o,
          [orders[o] EXCEPT !.status = status_mapping(carrier_status)],
          StatusHistory(o, orders[o].status, status_mapping(carrier_status)))

\* OrderViewSet.partial_update (staff) with OrderUpdateSerializer: the
\* status of the request is saved and no history row is created
PartialUpdate(o, new_status) ==
    /\ new_status \in ORDER_STATUS
    /\ OrderSaved(o, [orders[o] EXCEPT !.status = new_status])
    /\ UNCHANGED <<txns, history, callbacks, jobs, req, avail0, restVars>>

\* a faulty variant of already_processed: completed is not tested
failed_only(t) == t.status = "failed"

\* process_stk_callback: TRUE when the idempotency check ends the call
already_processed(t) == t.status \in {"completed", "failed"}

\* process_stk_callback: the instance it saves for the callback's result
\* code, mark_completed on 0 and mark_failed on any other code
callback_saved(t, ev) ==
    IF ev.result_code = 0
    THEN mark_completed(t, ReceiptOf(ev.checkout_request_id))
    ELSE mark_failed(t, ev.result_code)

\* process_stk_callback up to the idempotency check: the callback is logged,
\* the transaction is looked up and its status is tested
CallbackReceive(ev) ==
    /\ BagCardinality(jobs) < NumHandlers
    /\ Len(callbacks) < MaxCallbacks
    /\ LET found == Lookup(ev.checkout_request_id)
       IN IF found = {}
          THEN /\ callbacks' = Append(callbacks,
                      CallbackLog(ev, 0, FALSE, "Transaction not found"))
               /\ UNCHANGED jobs
          ELSE LET k == CHOOSE x \in found : TRUE
               IN IF already_processed(txns[k])
                  THEN /\ callbacks' = Append(callbacks,
                                              CallbackLog(ev, k, TRUE, ""))
                       /\ UNCHANGED jobs
                  ELSE /\ callbacks' = Append(callbacks,
                                              CallbackLog(ev, k, FALSE, ""))
                       /\ jobs' = Start(Job("callback",
                                            <<[pk |-> k, inst |-> txns[k]]>>,
                                            ev, Len(callbacks) + 1))
    /\ UNCHANGED <<txns, orders, history, stockVars>>

\* process_stk_callback after the idempotency check: the outcome is applied
\* to the loaded instance and the instance is saved
CallbackApply(j) ==
    /\ j.pc = "callback"
    /\ LET k == j.batch[1].pk
           t == j.batch[1].inst
           ev == j.event
           n == j.log
       IN /\ txns' = [txns EXCEPT ![k] = callback_saved(t, ev)]
          /\ IF ev.result_code = 0
             THEN OrderPaid(callback_saved(t, ev))
             ELSE UNCHANGED <<orders, history>>
          /\ callbacks' =
                IF ev.result_code = 0 /\ CompletedRaises(t)
                THEN [callbacks EXCEPT ![n].processing_error = "exception"]
                ELSE [callbacks EXCEPT ![n].is_processed = TRUE]
    /\ jobs' = Finish(j)
    /\ UNCHANGED stockVars

\* mpesa_timeout: the timeout notification of the provider
MpesaTimeout(cid) ==
    /\ Lookup(cid) # {}
    /\ LET k == CHOOSE x \in Lookup(cid) : TRUE
       IN /\ txns' = [txns EXCEPT ![k].status = "timeout"]
    /\ UNCHANGED <<orders, history, callbacks, jobs, stockVars>>

\* CheckPaymentStatusView.post and check_payment_status up to the provider
\* query: the transaction is loaded and is still processing
PollLoad(cid) ==
    /\ BagCardinality(jobs) < NumHandlers
    /\ Lookup(cid) # {}
    /\ LET k == CHOOSE x \in Lookup(cid) : TRUE
       IN /\ txns[k].status = "processing"
          /\ is_pending(txns[k])
          /\ jobs' = Start(Job("poll", <<[pk |-> k, inst |-> txns[k]]>>,
                               <<>>, 0))
    /\ UNCHANGED <<txns, orders, history, callbacks, stockVars>>

\* a faulty variant of poll_status: every response counts as a success
poll_completes(resp) == "completed"

\* check_payment_status: the status of the loaded instance after the
\* provider's response was read ("same" when nothing is written)
poll_status(resp) ==
    IF resp.code \in {"none", "error"} THEN "same"
    ELSE IF resp.code = "0"
    THEN (IF resp.has_params THEN "completed" ELSE "same")
    ELSE IF resp.code \in {"1032", "1037"}
    THEN (IF resp.code = "1032" THEN "cancelled" ELSE "timeout")
    ELSE "failed"

\* check_payment_status: what it writes for the provider's response, from
\* the instance t it loaded of row k
PollWrites(k, t, resp) ==
    LET st == poll_status(resp)
    IN CASE st = "same" -> UNCHANGED <<txns, orders, history>>
         [] st = "completed" ->
                /\ CompletedRows(k, t, ReceiptOf(t.checkout_request_id))
         [] st \in {"cancelled", "timeout"} ->
                /\ txns' = [txns EXCEPT ![k] =
                              [t EXCEPT !.status = st,
                                        !.result_code = <<ToInt(resp.code)>>]]
                /\ UNCHANGED <<orders, history>>
         [] st = "failed" ->
                /\ txns' = [txns EXCEPT ![k] =
                              mark_failed(t, ToInt(resp.code))]
                /\ UNCHANGED <<orders, history>>

\* check_payment_status from the provider's response on
PollApply(j, resp) ==
    /\ j.pc = "poll"
    /\ PollWrites(j.batch[1].pk, j.batch[1].inst, resp)
    /\ jobs' = Finish(j)
    /\ UNCHANGED <<callbacks, stockVars>>

RECURSIVE Selected(_)
\* check_pending_transactions: the queryset (status processing, among the
\* transactions 1..n initiated before the cutoff), newest first, as the loop
\* evaluates it
Selected(n) ==
    IF n = 0 THEN <<>>
    ELSE IF txns[n].status = "processing"
    THEN <<[pk |-> n, inst |-> txns[n]]>> \o Selected(n - 1)
    ELSE Selected(n - 1)

\* check_pending_transactions up to the loop; transactions 1..c are the ones
\* initiated at or before the five-minute cutoff when the task runs
SweepStart(c) ==
    /\ BagCardinality(jobs) < NumHandlers
    /\ c \in 0..Len(txns)
    /\ Selected(c) # <<>>
    /\ jobs' = Start(Job("sweep", Selected(c), <<>>, 0))
    /\ UNCHANGED <<txns, orders, history, callbacks, stockVars>>

\* check_pending_transactions: what one loop iteration writes for the
\* provider's response ("same" when nothing is written)
sweep_status(resp) ==
    IF resp.code \in {"none", "error"} THEN "same"
    ELSE IF resp.code = "0" THEN "same"
    ELSE "failed"

\* check_pending_transactions, one iteration of the loop
SweepStep(j, resp) ==
    /\ j.pc = "sweep"
    /\ LET k == j.batch[1].pk
           t == j.batch[1].inst
           rest == Tail(j.batch)
       IN /\ IF sweep_status(resp) = "failed"
             THEN /\ txns' = [txns EXCEPT ![k] = mark_failed(t, ToInt(resp.code))]
             ELSE UNCHANGED <<txns>>
          /\ jobs' = IF rest = <<>> THEN Finish(j)
                     ELSE Finish(j) (+) SetToBag({[j EXCEPT !.batch = rest]})
    /\ UNCHANGED <<orders, history, callbacks, stockVars>>

Answers == {"accepted", "rejected", "network_error"}

NextPay ==
    \/ \E o \in OrderIds, a \in Answers : InitiatePayment(o, a)
    \/ \E k \in 1..MaxTxns, a \in Answers : Retry(k, a)
    \/ \E o \in OrderIds, refund \in BOOLEAN : OrderCancel(o, refund)
    \/ \E ev \in CallbackEvents : CallbackReceive(ev)
    \/ \E j \in BagToSet(jobs) : CallbackApply(j)
    \/ \E cid \in 1..MaxTxns : MpesaTimeout(cid)
    \/ \E cid \in 1..MaxTxns : PollLoad(cid)
    \/ \E j \in BagToSet(jobs), resp \in QueryResponses : PollApply(j, resp)
    \/ \E c \in 1..MaxTxns : SweepStart(c)
    \/ \E j \in BagToSet(jobs), resp \in QueryResponses : SweepStep(j, resp)

\* ---------------------------------------------------------- order lifecycle
TrackingNumbers == {"", "TRK"}
CarrierStatuses == {"delivered", "out_for_delivery", "exception"}

\* the warehouse row of the ordered product: one unit is reserved already
OrderStockRow ==
    [quantity |-> MaxQty, reserved_quantity |-> 1, damaged_quantity |-> 0]

InitOrder ==
    /\ stock = OrderStockRow
    /\ InitStockRows
    /\ InitPayRows

NextOrder ==
    \/ \E o \in OrderIds, new_status \in ORDER_STATUS :
            UpdateStatus(o, new_status)
    \/ \E o \in OrderIds, new_status \in ORDER_STATUS :
            PartialUpdate(o, new_status)
    \/ \E o \in OrderIds, n \in TrackingNumbers : AddTracking(o, n)
    \/ \E o \in OrderIds, n \in TrackingNumbers, c \in CarrierStatuses :
            ShippingWebhook(o, n, c)
    \/ \E o \in OrderIds, refund \in BOOLEAN : OrderCancel(o, refund)

SpecOrder == InitOrder /\ [][NextOrder]_vars

\* ------------------------------------------------------ endpoint responses
\* JsonResponse({'ResultCode': 0, 'ResultDesc': 'Accepted'})
Accepted(endpoint) ==
    [endpoint |-> endpoint, status_code |-> 200, body |-> <<0, "Accepted">>]

\* JsonResponse({'ResultCode': 1, 'ResultDesc': 'Failed'}, status=500)
Failed(endpoint) ==
    [endpoint |-> endpoint, status_code |-> 500, body |-> <<1, "Failed">>]

\* CheckPaymentStatusView.post: Response(response_data) for a transaction
StatusResponse(t) ==
    [endpoint |-> "check-status", status_code |-> 200,
     body |-> <<t.status, t.result_code, t.mpesa_receipt_number>>]

\* CheckPaymentStatusView.post: the answer when no transaction is found
NotFound(endpoint) ==
    [endpoint |-> endpoint, status_code |-> 404,
     body |-> <<"Transaction not found">>]

\* CheckPaymentStatusView.post with check_payment_status, run without
\* interruption: a processing transaction is queried at the provider, and
\* the answer carries the row as refresh_from_db() reads it afterwards
CheckPaymentStatus(cid, resp) ==
    /\ LET found == Lookup(cid)
           k == CHOOSE x \in found : TRUE
       IN IF found = {}
          THEN /\ http' = NotFound("check-status")
               /\ UNCHANGED <<txns, orders, history>>
          ELSE /\ IF txns[k].status = "processing" /\ is_pending(txns[k])
                  THEN PollWrites(k, txns[k], resp)
                  ELSE UNCHANGED <<txns, orders, history>>
               /\ http' = StatusResponse(txns'[k])
    /\ UNCHANGED <<callbacks, jobs, stock, movements, req, avail0, token,
                 shopVars>>

\* what is posted to the callback endpoint: a well-formed STK callback, a
\* body that is not JSON (request.data raises ParseError), or JSON that is
\* not an object (callback_data.get raises AttributeError)
CallbackRequests ==
    [kind : {"event"}, event : CallbackEvents]
        \cup [kind : {"malformed_json", "not_an_object"}, event : {Null}]

\* the insert that fails while the request is handled: none, the
\* MpesaWebhookLog row of the view, or the MpesaCallback row of the processor
LogFaults == {"none", "webhook_log", "callback_log"}

\* mpesa_callback: TRUE when an exception reaches the view's handler; the
\* view evaluates request.data while it creates its MpesaWebhookLog row
callback_view_raises(request, fault) ==
    request.kind = "malformed_json" \/ fault = "webhook_log"

\* mpesa_callback: the response of the view
callback_response(request, fault) ==
    IF callback_view_raises(request, fault)
    THEN Failed("callback")
    ELSE Accepted("callback")

\* mpesa_callback with process_stk_callback, run without interruption
MpesaCallback(request, fault) ==
    /\ http' = callback_response(request, fault)
    /\ IF callback_view_raises(request, fault) \/ fault = "callback_log"
       THEN UNCHANGED <<txns, orders, history, callbacks>>
       ELSE /\ Len(callbacks) < MaxCallbacks
            /\ IF request.kind = "not_an_object"
               THEN /\ callbacks' = Append(callbacks,
                           CallbackLog(request.kind, 0, FALSE, "exception"))
                    /\ UNCHANGED <<txns, orders, history>>
               ELSE LET ev == request.event
                        found == Lookup(ev.checkout_request_id)
                        k == CHOOSE x \in found : TRUE
                    IN IF found = {}
                       THEN /\ callbacks' = Append(callbacks,
                                   CallbackLog(ev, 0, FALSE,
                                               "Transaction not found"))
                            /\ UNCHANGED <<txns, orders, history>>
                       ELSE IF already_processed(txns[k])
                       THEN /\ callbacks' = Append(callbacks,
                                   CallbackLog(ev, k, TRUE, ""))
                            /\ UNCHANGED <<txns, orders, history>>
                       ELSE /\ txns' = [txns EXCEPT
                                          ![k] = callback_saved(txns[k], ev)]
                            /\ IF ev.result_code = 0
                               THEN OrderPaid(callback_saved(txns[k], ev))
                               ELSE UNCHANGED <<orders, history>>
                            /\ callbacks' = Append(callbacks,
                                  IF ev.result_code = 0
                                     /\ CompletedRaises(txns[k])
                                  THEN CallbackLog(ev, k, FALSE, "exception")
                                  ELSE CallbackLog(ev, k, TRUE, ""))
    /\ UNCHANGED <<jobs, stock, movements, req, avail0, token,
                 shopVars>>

\* ------------------------------------------------------ payment initiation
\* every way an initiation can end
InitiationAnswers ==
    Answers \cup {"timeout", "token_error", "no_configuration"}

NextInitiate ==
    \/ \E o \in OrderIds, answer \in InitiationAnswers :
            InitiatePayment(o, answer)
    \/ \E k \in 1..MaxTxns, answer \in InitiationAnswers : Retry(k, answer)
    \/ \E o \in OrderIds, refund \in BOOLEAN : OrderCancel(o, refund)
    \/ \E o \in OrderIds, new_status \in ORDER_STATUS :
            PartialUpdate(o, new_status)

SpecInitiate == InitPay /\ [][NextInitiate]_vars

\* the answers of MpesaTransactionViewSet.retry
RetryRefused ==
    [endpoint |-> "retry", status_code |-> 400,
     body |-> <<"Transaction cannot be retried">>]

RetryAnswered(answer) ==
    IF answer \in {"accepted", "rejected"}
    THEN [endpoint |-> "retry", status_code |-> 200,
          body |-> <<"Payment retry initiated">>]
    ELSE IF answer = "no_configuration"
    THEN [endpoint |-> "retry", status_code |-> 500, body |-> <<"error">>]
    ELSE [endpoint |-> "retry", status_code |-> 400, body |-> <<"error">>]

\* POST retry on transaction k: a transaction that cannot be retried is
\* answered 400 and nothing is written; otherwise a new payment is initiated
\* with the details of k and, when initiate_stk_push returns, k's counter is
\* incremented
RetryRequest(k, answer) ==
    /\ k \in 1..Len(txns)
    /\ IF ~can_retry(txns[k])
       THEN /\ http' = RetryRefused
            /\ UNCHANGED txns
       ELSE /\ Len(txns) < MaxRetryTxns
            /\ LET old == IF initiation_raises(answer) THEN txns[k]
                          ELSE [txns[k] EXCEPT
                                   !.retry_count = txns[k].retry_count + 1]
               IN txns' = txns_after_initiation([txns EXCEPT ![k] = old],
                                               txns[k].order, answer)
            /\ http' = RetryAnswered(answer)
    /\ UNCHANGED <<orders, history, callbacks, jobs, stock, movements, req,
                   avail0, token, shopVars>>

NextRetry ==
    \/ \E o \in OrderIds, answer \in InitiationAnswers :
            InitiatePayment(o, answer)
    \/ \E k \in 1..MaxRetryTxns, answer \in InitiationAnswers :
            RetryRequest(k, answer)

SpecRetry == InitPay /\ [][NextRetry]_vars

\* ------------------------------------------------------------- stock alerts
\* the shop after the row was created: the product's stock_quantity is the
\* row's quantity and check_stock_levels has run on the new row
InitShopRows ==
    /\ movements = <<>>
    /\ req = [c \in Callers |-> IdleReq]
    /\ avail0 = available_quantity(stock)
    /\ http = NoResponse
    /\ token = NoToken
    /\ product = [stock_quantity |-> stock.quantity]
    /\ placed = <<>>
    /\ alerts = check_stock_levels({}, stock)

InitShop ==
    /\ InitShopRows
    /\ warehouses = <<>>
    /\ picked = NotPicked
    /\ split = NotSplit
    /\ transfers = <<>>
    /\ to_stock = NoRow

\* ----------------------------------------------------------------- checkout
\* a faulty variant of has_stock: the stock of the product is not looked at
stock_not_checked(p, q) == TRUE

\* OrderCreateSerializer.validate_items: the stock check of one line item
has_stock(p, q) == ~(p.stock_quantity < q)

\* OrderCreateSerializer.validate_items: TRUE when every line item passes
validate_items(p, items) ==
    /\ Len(items) >= 1
    /\ \A i \in 1..Len(items) : items[i] >= 1 /\ has_stock(p, items[i])

\* product.save(): the warehouse row, the product and the alerts once the
\* receivers of the save have run; a row that sync_warehouse_stock saves
\* raises its alerts and has the product's stock_quantity recomputed from it
\* (update_product_stock_on_warehouse_change)
product_saved(s, al, old, new) ==
    IF sync_saves_row(s, old, new)
    THEN LET row == sync_warehouse_stock(s, old, new)
         IN [stock |-> row, product |-> [stock_quantity |-> row.quantity],
             alerts |-> check_stock_levels(al, row)]
    ELSE [stock |-> s, product |-> [stock_quantity |-> new], alerts |-> al]

\* OrderCreateSerializer.create: the loop over the line items; each item
\* carries the product instance validate_items loaded for it (stock_quantity
\* p0), takes its quantity off that instance and saves it
RECURSIVE items_sold(_, _, _, _, _)
items_sold(p0, s, p, al, items) ==
    IF items = <<>> THEN [stock |-> s, product |-> p, alerts |-> al]
    ELSE LET saved == product_saved(s, al, p.stock_quantity,
                                    p0.stock_quantity - Head(items))
         IN items_sold(p0, saved.stock, saved.product, saved.alerts,
                       Tail(items))

\* the answers of OrderViewSet.create
BadRequest(endpoint) ==
    [endpoint |-> endpoint, status_code |-> 400, body |-> <<"errors">>]

OrderCreated(endpoint) ==
    [endpoint |-> endpoint, status_code |-> 201, body |-> <<"pending">>]

\* the order checkout creates: its OrderItem rows and the two history rows
\* (order_post_save and the serializer each add '' -> pending)
PlacedOrder(items) ==
    [status |-> "pending", payment_status |-> "pending", items |-> items,
     history |-> <<StatusHistory(0, "", "pending"),
                   StatusHistory(0, "", "pending")>>]

\* the line items of a checkout request
Carts ==
    {<<q>> : q \in 1..MaxQty} \cup {<<q1, q2>> : q1, q2 \in 1..MaxQty}

\* OrderViewSet.create: the request is validated; a valid one creates the
\* order and its items and takes the items off the product's stock, and a
\* payment by M-Pesa is initiated (pay is the provider's answer, "none" when
\* the request asks for no M-Pesa payment); an initiation error is printed
Checkout(items, pay) ==
    IF ~validate_items(product, items)
    THEN /\ http' = BadRequest("checkout")
         /\ UNCHANGED <<stock, product, alerts, placed, txns>>
         /\ UNCHANGED <<movements, req, avail0, orders, history, callbacks,
                        jobs, token, selectVars>>
    ELSE /\ Len(placed) < MaxPlaced
         /\ pay # "none" => Len(txns) < MaxTxns
         /\ placed' = Append(placed, PlacedOrder(items))
         /\ LET sold == items_sold(product, stock, product, alerts, items)
            IN /\ stock' = sold.stock
               /\ product' = sold.product
               /\ alerts' = sold.alerts
         /\ txns' = IF pay = "none" THEN txns
                    ELSE txns_after_initiation(txns, NumOrders + Len(placed) + 1,
                                               pay)
         /\ http' = OrderCreated("checkout")
         /\ UNCHANGED <<movements, req, avail0, orders, history, callbacks,
                        jobs, token, selectVars>>

InitCheckout ==
    /\ stock \in StockRows
    /\ InitShop
    /\ InitPayRows

NextCheckout ==
    \E items \in Carts, pay \in {"none"} \cup InitiationAnswers :
        Checkout(items, pay)

SpecCheckout == InitCheckout /\ [][NextCheckout]_vars

\* --------------------------------------------- the life of a placed order
\* the answers of OrderViewSet.cancel and OrderViewSet.update_status; an
\* exception update_status does not catch is answered by the framework
OrderCancelled ==
    [endpoint |-> "cancel", status_code |-> 200,
     body |-> <<"Order cancelled successfully">>]

StatusUpdated ==
    [endpoint |-> "update_status", status_code |-> 200,
     body |-> <<"Order status updated">>]

Unhandled(endpoint) ==
    [endpoint |-> endpoint, status_code |-> 500, body |-> <<"NameError">>]

\* OrderViewSet.cancel, the restock loop: each item's product is loaded, the
\* item's quantity is added to its stock_quantity and the product is saved
RECURSIVE items_restocked(_, _, _, _)
items_restocked(s, p, al, items) ==
    IF items = <<>> THEN [stock |-> s, product |-> p, alerts |-> al]
    ELSE LET saved == product_saved(s, al, p.stock_quantity,
                                    p.stock_quantity + Head(items))
         IN items_restocked(saved.stock, saved.product, saved.alerts,
                            Tail(items))

\* OrderViewSet.cancel on an order checkout created: the row is saved
\* cancelled; order.save() raises out of handle_order_inventory, the view
\* catches it and answers 400 before the restock loop and the history row
CancelPlaced(i, restock_items) ==
    /\ i \in 1..Len(placed)
    /\ is_cancellable(placed[i])
    /\ LET old_status == placed[i].status
           raises == order_save_raises(old_status, "cancelled")
           released == inventory_stock(stock, old_status, "cancelled",
                                       placed[i].items)
           restocked ==
               IF restock_items
               THEN items_restocked(released, product, alerts,
                                    placed[i].items)
               ELSE [stock |-> released, product |-> product,
                     alerts |-> alerts]
       IN /\ raises \/ Len(placed[i].history) < MaxPlacedHistory
          /\ placed' = [placed EXCEPT ![i] =
                 [@ EXCEPT !.status = "cancelled",
                           !.history =
                               IF raises THEN @
                               ELSE Append(@, StatusHistory(0, old_status,
                                                            "cancelled"))]]
          /\ IF raises
             THEN /\ UNCHANGED <<stock, product, alerts>>
                  /\ http' = BadRequest("cancel")
             ELSE /\ stock' = restocked.stock
                  /\ product' = restocked.product
                  /\ alerts' = restocked.alerts
                  /\ http' = OrderCancelled
    /\ UNCHANGED <<movements, req, avail0, token, selectVars, payVars>>

\* OrderViewSet.update_status (staff) on an order checkout created: the row
\* is saved with the status of the request; a save that raises ends the view
\* before the history row
UpdatePlacedStatus(i, new_status) ==
    /\ i \in 1..Len(placed)
    /\ new_status \in ORDER_STATUS
    /\ LET old_status == placed[i].status
           raises == order_save_raises(old_status, new_status)
       IN /\ raises \/ Len(placed[i].history) < MaxPlacedHistory
          /\ Len(inventory_movements(stock, old_status, new_status,
                                     placed[i].items)) <= MaxSales
          /\ placed' = [placed EXCEPT ![i] =
                 [@ EXCEPT !.status = new_status,
                           !.history =
                               IF raises THEN @
                               ELSE Append(@, StatusHistory(0, old_status,
                                                            new_status))]]
          /\ stock' = inventory_stock(stock, old_status, new_status,
                                      placed[i].items)
          /\ movements' = inventory_movements(stock, old_status, new_status,
                                              placed[i].items)
          /\ http' = IF raises THEN Unhandled("update_status")
                     ELSE StatusUpdated
    /\ UNCHANGED <<req, avail0, token, product, alerts, selectVars, payVars>>

\* orders that are placed without an M-Pesa payment, confirmed, shipped and
\* cancelled
NextOrderLife ==
    \/ \E items \in Carts : Checkout(items, "none")
    \/ \E i \in 1..MaxPlaced, restock_items \in BOOLEAN :
           CancelPlaced(i, restock_items)
    \/ \E i \in 1..MaxPlaced, new_status \in {"confirmed", "shipped"} :
           UpdatePlacedStatus(i, new_status)

SpecOrderLife == InitCheckout /\ [][NextOrderLife]_vars

\* -------------------------------------------------- saves of the stock row
\* WarehouseStockViewSet.update / partial_update: the serializer writes the
\* on-hand quantity and saves the row; check_stock_levels runs on the saved
\* row, the product is recomputed in the next step of the save chain
UpdateStock(quantity) ==
    /\ product.stock_quantity = stock.quantity
    /\ quantity >= 0
    /\ stock' = [stock EXCEPT !.quantity = quantity]
    /\ alerts' = check_stock_levels(alerts, stock')
    /\ UNCHANGED <<movements, req, avail0, http, token, selectVars, product, placed,
                   payVars>>

\* update_product_stock_on_warehouse_change after a save that changed the
\* row's quantity: the product's stock_quantity becomes the row's quantity
\* and the product's own post_save (sync_warehouse_stock) applies the
\* difference to the row once more, which is a further save of the row
SyncProduct ==
    /\ product.stock_quantity # stock.quantity
    /\ LET row == sync_warehouse_stock(stock, product.stock_quantity,
                                       stock.quantity)
       IN /\ row.quantity <= MaxOnHand
          /\ product' = [stock_quantity |-> stock.quantity]
          /\ stock' = row
          /\ alerts' = IF sync_saves_row(stock, product.stock_quantity,
                                         stock.quantity)
                       THEN check_stock_levels(alerts, row) ELSE alerts
    /\ UNCHANGED <<movements, req, avail0, http, token, selectVars, placed, payVars>>

\* the save chain of an increase ends when a nested save exceeds the
\* interpreter's recursion limit: update_product_stock_on_warehouse_change
\* catches the error after the product was written
SyncAborted ==
    /\ product.stock_quantity < stock.quantity
    /\ sync_warehouse_stock(stock, product.stock_quantity,
                            stock.quantity).quantity > MaxOnHand
    /\ product' = [stock_quantity |-> stock.quantity]
    /\ UNCHANGED <<stock, movements, req, avail0, http, token, selectVars, placed, alerts,
                   payVars>>

\* StockAlertViewSet.resolve: the alert is marked resolved
ResolveAlert(a) ==
    /\ a \in alerts
    /\ alerts' = alerts \ {a}
    /\ UNCHANGED <<stock, movements, req, avail0, http, token, selectVars, product, placed,
                   payVars>>

InitAlerts ==
    /\ stock \in StockRows
    /\ InitShop
    /\ InitPayRows

NextAlerts ==
    \/ \E quantity \in 0..MaxQty : UpdateStock(quantity)
    \/ SyncProduct
    \/ SyncAborted
    \/ \E a \in alerts : ResolveAlert(a)

SpecAlerts == InitAlerts /\ [][NextAlerts]_vars

\* ------------------------------------------------------ inventory transfers
TRANSFER_STATUS == {"draft", "pending", "in_transit", "received", "cancelled"}

\* InventoryTransferCreateSerializer.create: the transfer and its item
NewTransfer(quantity) ==
    [status |-> "draft", quantity |-> quantity, received_quantity |-> 0]

Min(a, b) == IF a <= b THEN a ELSE b

\* the rows a save chain works on: the source row, the destination row, the
\* product and the source row's alerts
StockRecords == [stock |-> stock, to_stock |-> to_stock, product |-> product,
                 alerts |-> alerts]

total_stock(r) == r.stock.quantity + r.to_stock.quantity

\* a row of the product written with the quantity q: the source row (the
\* primary warehouse's) or the destination row
with_quantity(r, source, q) ==
    IF source THEN [r EXCEPT !.stock.quantity = q]
    ELSE [r EXCEPT !.to_stock.quantity = q]

\* the receivers of a saved WarehouseStock row of a product that has two
\* rows, followed to the end of the chain of saves; `first` is the row the
\* database lists first when both hold the same quantity
RECURSIVE stock_row_saved(_, _, _, _, _)
RECURSIVE product_row_saved(_, _, _, _, _)
RECURSIVE handle_stock_decrease(_, _, _, _, _)
stock_row_saved(r, source, n, mode, first) ==
    LET checked ==
            IF source
            THEN [r EXCEPT !.alerts = check_stock_levels(r.alerts, r.stock)]
            ELSE r
    IN product_row_saved(checked, total_stock(checked), n, mode, first)

\* product.save(update_fields=['stock_quantity']) with the value `new`:
\* track_stock_changes and sync_warehouse_stock; an increase goes to the row
\* of the primary warehouse (handle_stock_increase)
product_row_saved(r, new, n, mode, first) ==
    LET p == r.product.stock_quantity
        written == [r EXCEPT !.product = [stock_quantity |-> new]]
    IN IF new = p THEN r
       ELSE IF new > p
       THEN IF n = 0 THEN (IF mode = "product" THEN r ELSE written)
            ELSE stock_row_saved(
                     with_quantity(written, TRUE,
                                   written.stock.quantity + (new - p)),
                     TRUE, n - 1, mode, first)
       ELSE handle_stock_decrease(written, p - new, n, mode, first)

\* handle_stock_decrease: the rows are listed by descending quantity once;
\* each row that holds stock gives up to the remaining amount and is saved,
\* the second one with the quantity it had when the rows were listed
handle_stock_decrease(r, amount, n, mode, first) ==
    IF total_stock(r) = 0 THEN r
    ELSE LET a == r.stock.quantity
             b == r.to_stock.quantity
             source_first == a > b \/ (a = b /\ first = "stock")
             q1 == IF source_first THEN a ELSE b
             q2 == IF source_first THEN b ELSE a
             deduction == IF q1 > 0 THEN Min(q1, amount) ELSE 0
             r1 == IF q1 > 0
                   THEN stock_row_saved(
                            with_quantity(r, source_first, q1 - deduction),
                            source_first, n, mode, first)
                   ELSE r
             remaining_to_deduct == amount - deduction
         IN IF remaining_to_deduct > 0 /\ q2 > 0
            THEN stock_row_saved(
                     with_quantity(r1, ~source_first,
                                   q2 - Min(q2, remaining_to_deduct)),
                     ~source_first, n, mode, first)
            ELSE r1

\* the rows after a handler: the chain is followed while the rows stay
\* within MaxOnHand
Written(r) ==
    /\ r.stock.quantity <= MaxOnHand
    /\ r.to_stock.quantity <= MaxOnHand
    /\ stock' = r.stock
    /\ to_stock' = r.to_stock
    /\ product' = r.product
    /\ alerts' = r.alerts

\* the answers of InventoryTransferViewSet
TransferAnswer(endpoint) ==
    [endpoint |-> endpoint, status_code |-> 200, body |-> <<"message">>]

TransferRefused(endpoint) ==
    [endpoint |-> endpoint, status_code |-> 400, body |-> <<"error">>]

transferFrame == <<req, avail0, token, placed, warehouses, picked, split,
                   payVars>>

\* InventoryTransferViewSet.create: the item's quantity is compared with the
\* available quantity of the source row; a valid request creates a draft
CreateTransfer(quantity) ==
    /\ quantity > 0
    /\ IF available_quantity(stock) < quantity
       THEN /\ http' = BadRequest("transfers")
            /\ UNCHANGED transfers
       ELSE /\ Len(transfers) < NumTransfers
            /\ transfers' = Append(transfers, NewTransfer(quantity))
            /\ http' = [endpoint |-> "transfers", status_code |-> 201,
                        body |-> <<"draft">>]
    /\ UNCHANGED <<stock, to_stock, product, alerts, movements, transferFrame>>

\* InventoryTransferViewSet.approve, InventoryTransfer.approve_transfer: the
\* transfer is saved pending, then reserve_stock is called for its item and
\* its return value is dropped
ApproveTransfer(t, n, mode, first) ==
    /\ t \in 1..Len(transfers)
    /\ IF transfers[t].status # "draft"
       THEN /\ http' = TransferRefused("approve")
            /\ UNCHANGED <<transfers, stock, to_stock, product, alerts>>
       ELSE /\ transfers' = [transfers EXCEPT ![t].status = "pending"]
            /\ IF reserve_ok(stock, transfers[t].quantity)
               THEN Written(stock_row_saved(
                        [StockRecords EXCEPT
                            !.stock = reserve_stock(stock,
                                                    transfers[t].quantity)],
                        TRUE, n, mode, first))
               ELSE UNCHANGED <<stock, to_stock, product, alerts>>
            /\ http' = TransferAnswer("approve")
    /\ UNCHANGED <<movements, transferFrame>>

\* InventoryTransferViewSet.ship, InventoryTransfer.ship_transfer: the
\* transfer is saved in_transit, fulfill_reservation takes the item off the
\* source row and a transfer movement is written from the instance
ShipTransfer(t, n, mode, first) ==
    /\ t \in 1..Len(transfers)
    /\ IF transfers[t].status # "pending"
       THEN /\ http' = TransferRefused("ship")
            /\ UNCHANGED <<transfers, stock, to_stock, product, alerts,
                           movements>>
       ELSE /\ Len(movements) < MaxTransferMovements
            /\ transfers' = [transfers EXCEPT ![t].status = "in_transit"]
            /\ LET quantity == transfers[t].quantity
                   from_stock == fulfill_reservation(stock, quantity)
                   saved == stock_row_saved(
                                [StockRecords EXCEPT !.stock = from_stock],
                                TRUE, n, mode, first)
               IN /\ Written(product_row_saved(saved, total_stock(saved), n,
                                               mode, first))
                  /\ movements' =
                         Append(movements,
                                Movement("transfer", 0 - quantity,
                                         from_stock.quantity + quantity,
                                         from_stock.quantity))
            /\ http' = TransferAnswer("ship")
    /\ UNCHANGED transferFrame

\* InventoryTransferViewSet.receive, InventoryTransfer.receive_transfer: the
\* transfer is saved received (sync_product_stock_after_transfer), the
\* destination row is created when it is missing, the received quantity is
\* added to it and a transfer movement is written
ReceiveTransfer(t, quantity, n, mode, first) ==
    /\ t \in 1..Len(transfers)
    /\ IF transfers[t].status # "in_transit"
       THEN /\ http' = TransferRefused("receive")
            /\ UNCHANGED <<transfers, stock, to_stock, product, alerts,
                           movements>>
       ELSE /\ Len(movements) < MaxTransferMovements
            /\ transfers' = [transfers EXCEPT
                                ![t].status = "received",
                                ![t].received_quantity = quantity]
            /\ LET synced == product_row_saved(StockRecords,
                                               total_stock(StockRecords), n,
                                               mode, first)
                   got == IF synced.to_stock.exists THEN synced
                          ELSE stock_row_saved(
                                   [synced EXCEPT !.to_stock.exists = TRUE],
                                   FALSE, n, mode, first)
                   quantity_before == got.to_stock.quantity
                   saved == stock_row_saved(
                                with_quantity(got, FALSE,
                                              quantity_before + quantity),
                                FALSE, n, mode, first)
               IN /\ Written(product_row_saved(saved, total_stock(saved), n,
                                               mode, first))
                  /\ movements' =
                         Append(movements,
                                Movement("transfer", quantity, quantity_before,
                                         quantity_before + quantity))
            /\ http' = TransferAnswer("receive")
    /\ UNCHANGED transferFrame

\* InventoryTransferViewSet.cancel: a pending transfer has
\* release_reservation called for its item, then the transfer is saved
\* cancelled
CancelTransfer(t, n, mode, first) ==
    /\ t \in 1..Len(transfers)
    /\ IF transfers[t].status \notin {"draft", "pending"}
       THEN /\ http' = TransferRefused("cancel")
            /\ UNCHANGED <<transfers, stock, to_stock, product, alerts>>
       ELSE /\ IF transfers[t].status = "pending"
               THEN Written(stock_row_saved(
                        [StockRecords EXCEPT
                            !.stock = release_reservation(
                                          stock, transfers[t].quantity)],
                        TRUE, n, mode, first))
               ELSE UNCHANGED <<stock, to_stock, product, alerts>>
            /\ transfers' = [transfers EXCEPT ![t].status = "cancelled"]
            /\ http' = TransferAnswer("cancel")
    /\ UNCHANGED <<movements, transferFrame>>

\* InventoryTransferViewSet.partial_update (staff) with
\* InventoryTransferSerializer, whose status field is writable: the status
\* of the request is saved; a transfer saved as received has the product's
\* stock_quantity recomputed (sync_product_stock_after_transfer)
UpdateTransfer(t, new_status, n, mode, first) ==
    /\ t \in 1..Len(transfers)
    /\ new_status \in TRANSFER_STATUS
    /\ transfers' = [transfers EXCEPT ![t].status = new_status]
    /\ IF new_status = "received"
       THEN Written(product_row_saved(StockRecords, total_stock(StockRecords),
                                      n, mode, first))
       ELSE UNCHANGED <<stock, to_stock, product, alerts>>
    /\ http' = TransferAnswer("transfers")
    /\ UNCHANGED <<movements, transferFrame>>

\* the statuses the partial updates of the model ask for
PatchedStatuses == {"pending", "received"}

\* a product that one warehouse stocks and no order or transfer has reserved
InitTransfer ==
    /\ stock \in {s \in StockRows : s.reserved_quantity = 0}
    /\ InitShop
    /\ InitPayRows

NextTransfer ==
    \/ \E quantity \in 1..MaxTransferQty : CreateTransfer(quantity)
    \/ \E t \in 1..NumTransfers, n \in 1..MaxSyncRounds, mode \in AbortModes,
          first \in {"stock", "to_stock"} :
           \/ ApproveTransfer(t, n, mode, first)
           \/ ShipTransfer(t, n, mode, first)
           \/ \E quantity \in 1..MaxTransferQty :
                  ReceiveTransfer(t, quantity, n, mode, first)
           \/ CancelTransfer(t, n, mode, first)
           \/ \E new_status \in PatchedStatuses :
                  UpdateTransfer(t, new_status, n, mode, first)

SpecTransfer == InitTransfer /\ [][NextTransfer]_vars

\* ------------------------------------------------------ warehouse selection
\* the stock rows of one product, one per warehouse: the counters of the row
\* and is_active, priority of its warehouse
WarehouseRows ==
    {w \in [quantity : 0..MaxQty, reserved_quantity : 0..MaxQty,
            damaged_quantity : 0..MaxQty, is_active : BOOLEAN,
            priority : 0..MaxPriority] :
        w.reserved_quantity + w.damaged_quantity <= w.quantity}

\* find_warehouse_with_stock: the annotation `available`
available(w) == w.quantity - w.reserved_quantity - w.damaged_quantity

\* find_warehouse_with_stock: the rows the two filters keep
with_stock(rows, quantity_needed) ==
    {i \in 1..Len(rows) :
        rows[i].is_active /\ available(rows[i]) >= quantity_needed}

\* find_warehouse_with_stock: the warehouses first() may return; the query
\* orders by -warehouse__priority alone, the database is free in the order
\* of rows of equal priority
first_by_priority(rows, quantity_needed) ==
    {i \in with_stock(rows, quantity_needed) :
        \A j \in with_stock(rows, quantity_needed) :
            rows[j].priority <= rows[i].priority}

\* find_warehouse_with_stock(product, quantity_needed)
FindWarehouse(quantity_needed) ==
    /\ \E w \in IF with_stock(warehouses, quantity_needed) = {} THEN {0}
                ELSE first_by_priority(warehouses, quantity_needed) :
          picked' = [quantity_needed |-> quantity_needed, warehouse |-> w]
    /\ UNCHANGED <<stock, movements, req, avail0, http, token, product, placed,
                   alerts, warehouses, split, transferVars, payVars>>

\* a faulty variant of allocate: the whole available quantity is taken
allocate_all(w, remaining) == available_quantity(w)

\* split_order_across_warehouses: the quantity taken from one row
allocate(w, remaining) ==
    IF available_quantity(w) < remaining THEN available_quantity(w)
    ELSE remaining

\* split_order_across_warehouses: the rows the two filters keep
in_stock(rows) ==
    {i \in 1..Len(rows) : rows[i].is_active /\ available(rows[i]) > 0}

\* the orders in which the database may return the rows kept: the query
\* orders by -warehouse__priority alone
by_priority(rows) ==
    {order \in [1..Cardinality(in_stock(rows)) -> in_stock(rows)] :
        /\ \A i, j \in DOMAIN order : i # j => order[i] # order[j]
        /\ \A i, j \in DOMAIN order :
              i < j => rows[order[i]].priority >= rows[order[j]].priority}

\* split_order_across_warehouses: the loop over the rows in the order given
RECURSIVE allocated(_, _, _, _)
allocated(rows, order, remaining, allocation) ==
    IF order = <<>> \/ remaining <= 0
    THEN [allocation |-> allocation, remaining |-> remaining]
    ELSE LET quantity == allocate(rows[Head(order)], remaining)
         IN allocated(rows, Tail(order), remaining - quantity,
                      Append(allocation, [warehouse |-> Head(order),
                                          quantity |-> quantity]))

\* split_order_across_warehouses(product, quantity_needed)
SplitOrder(quantity_needed) ==
    /\ \E order \in by_priority(warehouses) :
          LET done == allocated(warehouses, order, quantity_needed, <<>>)
          IN split' = [quantity_needed |-> quantity_needed,
                       allocation |-> done.allocation,
                       ok |-> done.remaining = 0]
    /\ UNCHANGED <<stock, movements, req, avail0, http, token, product, placed,
                   alerts, warehouses, picked, transferVars, payVars>>

InitSelect ==
    /\ stock = OrderStockRow
    /\ InitShopRows
    /\ InitPayRows
    /\ warehouses \in [1..NumWarehouses -> WarehouseRows]
    /\ picked = NotPicked
    /\ split = NotSplit
    /\ transfers = <<>>
    /\ to_stock = NoRow

NextSelect == \E quantity_needed \in 1..MaxQty : FindWarehouse(quantity_needed)

\* the quantities an order line may ask for: up to all the stock there is
NextSplit == \E quantity_needed \in 1..MaxSplit : SplitOrder(quantity_needed)

SpecSelect == InitSelect /\ [][NextSelect]_vars
SpecSplit == InitSelect /\ [][NextSplit]_vars

\* ----------------------------------------------------------- access token
\* get_access_token up to the decision to fetch: the cache entry is
\* returned; failing that a valid MpesaAccessToken row is cached and
\* returned; failing that the caller goes on to _fetch_new_token
TokenLookup(c) ==
    /\ token.callers[c].pc = "idle"
    /\ token' =
          IF token.cache # 0
          THEN [token EXCEPT !.callers[c] =
                                [pc |-> "done", token |-> token.cache]]
          ELSE IF token.row # 0
          THEN [token EXCEPT !.cache = token.row,
                             !.callers[c] =
                                [pc |-> "done", token |-> token.row]]
          ELSE [token EXCEPT !.callers[c] = [pc |-> "fetching", token |-> 0]]
    /\ UNCHANGED <<stock, movements, req, avail0, payVars, http, shopVars>>

\* _fetch_new_token: a token request is sent, the provider issues a new
\* token, and it is stored in the row and in the cache
TokenFetch(c) ==
    /\ token.callers[c].pc = "fetching"
    /\ token.issued < MaxTokens
    /\ token' = [token EXCEPT
                    !.issued = token.issued + 1,
                    !.sent = token.sent + 1,
                    !.row = token.issued + 1,
                    !.cache = token.issued + 1,
                    !.callers[c] = [pc |-> "done",
                                   token |-> token.issued + 1]]
    /\ UNCHANGED <<stock, movements, req, avail0, payVars, http, shopVars>>

\* the caller's request ends; its client may ask for the token again
TokenDone(c) ==
    /\ token.callers[c].pc = "done"
    /\ token' = [token EXCEPT !.callers[c] = IdleCaller]
    /\ UNCHANGED <<stock, movements, req, avail0, payVars, http, shopVars>>

\* the cache entry times out (it is set to expire a minute before the row)
CacheExpires ==
    /\ token.cache # 0
    /\ token' = [token EXCEPT !.cache = 0]
    /\ UNCHANGED <<stock, movements, req, avail0, payVars, http, shopVars>>

\* MpesaAccessToken.is_expired becomes true: a new expiry period starts
\* once nobody holds or fetches a token of the old one
RowExpires ==
    /\ token.row # 0
    /\ \A c \in Callers : token.callers[c].pc = "idle"
    /\ token' = [token EXCEPT !.cache = 0, !.row = 0, !.sent = 0]
    /\ UNCHANGED <<stock, movements, req, avail0, payVars, http, shopVars>>

NextToken ==
    \/ \E c \in Callers : TokenLookup(c)
    \/ \E c \in Callers : TokenFetch(c)
    \/ \E c \in Callers : TokenDone(c)
    \/ CacheExpires
    \/ RowExpires

SpecToken == InitPay /\ [][NextToken]_vars

\* ---------------------------------------------------- endpoints, one by one
NextEndpoints ==
    \/ \E o \in OrderIds, answer \in Answers : InitiatePayment(o, answer)
    \/ \E request \in CallbackRequests, fault \in LogFaults :
            MpesaCallback(request, fault)
    \/ \E cid \in 1..MaxTxns, resp \in QueryResponses :
            CheckPaymentStatus(cid, resp)

SpecEndpoints == InitPay /\ [][NextEndpoints]_vars

SpecPay == InitPay /\ [][NextPay]_vars

\* the periodic task runs again and again, also once every transaction is
\* older than five minutes, and every run it starts goes through its loop
SweepFairness ==
    /\ WF_vars(SweepStart(Len(txns)))
    /\ WF_vars(\E j \in BagToSet(jobs), resp \in QueryResponses :
                  SweepStep(j, resp))

\* a handler that loaded a transaction runs to its end
HandlersFinish ==
    /\ WF_vars(\E j \in BagToSet(jobs) : CallbackApply(j))
    /\ WF_vars(\E j \in BagToSet(jobs), resp \in QueryResponses :
                  PollApply(j, resp))

SpecPayFair == InitPay /\ [][NextPay]_vars /\ SweepFairness /\ HandlersFinish

\* ------------------------------------------------------- claims: stock ledger
RECURSIVE SumGranted(_)
\* units handed out by the reserve requests of set S that answered success
SumGranted(S) ==
    IF S = {} THEN 0
    ELSE LET c == CHOOSE x \in S : TRUE
         IN (IF req[c].pc = "done" /\ req[c].ok THEN req[c].quantity ELSE 0)
            + SumGranted(S \ {c})

\* C1: every stock record keeps 0 <= reserved_quantity + damaged_quantity <=
\* quantity after any sequence of reserve, release, fulfil, manual adjustment,
\* bulk update and stock-count correction.
C1_StockInvariant ==
    /\ 0 <= stock.reserved_quantity + stock.damaged_quantity
    /\ stock.reserved_quantity + stock.damaged_quantity <= stock.quantity

\* C2: no oversell. The reserve requests that answered success were handed at
\* most the quantity that was available before the first of them ran.
C2_NoOversell == SumGranted(Callers) <= avail0

\* ---------------------------------------------------- claims: payment engine
\* the row a lookup by checkout request id finds
Found(cid) == CHOOSE k \in Lookup(cid) : TRUE

\* C3: a success callback and a failure reported by the reconciliation poll
\* for the same transaction never both take effect: once the callback has
\* completed the transaction and paid the order, the poll's failure, applied
\* by a sweep or status query that loaded the transaction earlier, leaves
\* the transaction completed (never a paid order with a failed transaction).
C3_OneOutcome ==
    [][\A j \in BagToSet(jobs), resp \in QueryResponses :
          (/\ j.pc \in {"poll", "sweep"}
           /\ resp.code \in {"1", "1032", "1037"}
           /\ txns[j.batch[1].pk].status = "completed"
           /\ orders[txns[j.batch[1].pk].order].payment_status = "paid"
           /\ orders[txns[j.batch[1].pk].order].payment_id
                  = txns[j.batch[1].pk].mpesa_receipt_number
           /\ PollApply(j, resp) \/ SweepStep(j, resp))
          => txns'[j.batch[1].pk] = txns[j.batch[1].pk]]_vars

\* the success callback ev was applied before: it is in the log and its
\* transaction is completed with its receipt
AppliedBefore(ev) ==
    /\ ev.result_code = 0
    /\ \E n \in 1..Len(callbacks) : callbacks[n].raw_payload = ev
    /\ Lookup(ev.checkout_request_id) # {}
    /\ txns[Found(ev.checkout_request_id)].status = "completed"
    /\ txns[Found(ev.checkout_request_id)].mpesa_receipt_number
           = ReceiptOf(ev.checkout_request_id)

\* C4: the second application of the same success callback answers success
\* and changes no transaction, order, history row or stock movement.
C4_IdempotentCallback ==
    [][\A ev \in CallbackEvents :
          (AppliedBefore(ev) /\ CallbackReceive(ev))
          => /\ UNCHANGED <<txns, orders, history, movements, stock, jobs>>
             /\ callbacks'[Len(callbacks')].is_processed
             /\ callbacks'[Len(callbacks')].processing_error = ""]_vars

\* C4, reached: the same success callback is logged twice; the first
\* application paid and confirmed the pending order, the second was answered
\* as processed and nothing it could have written is there
C4_Twice ==
    /\ Len(callbacks) = 2
    /\ callbacks[1].raw_payload = callbacks[2].raw_payload
    /\ callbacks[1].raw_payload.result_code = 0
    /\ callbacks[1].processing_error = "exception"
    /\ callbacks[2].is_processed /\ callbacks[2].processing_error = ""
    /\ callbacks[2].transaction # 0
    /\ txns[callbacks[2].transaction].status = "completed"
    /\ orders[txns[callbacks[2].transaction].order].status = "confirmed"
    /\ orders[txns[callbacks[2].transaction].order].payment_status = "paid"
    /\ history = <<>>
    /\ jobs = EmptyBag

\* C5: once a transaction's status is terminal, no step changes its status,
\* result code or receipt.
C5_TerminalIsFinal ==
    [][\A k \in 1..Len(txns) :
          txns[k].status \in TerminalStatuses
          => /\ txns'[k].status = txns[k].status
             /\ txns'[k].result_code = txns[k].result_code
             /\ txns'[k].mpesa_receipt_number
                    = txns[k].mpesa_receipt_number]_vars

\* C6: an order that is paid keeps the receipt it was paid with: no later
\* successful transaction overwrites it.
C6_PaidOnce ==
    [][\A o \in OrderIds :
          orders[o].payment_status = "paid"
          => orders'[o].payment_id = orders[o].payment_id]_vars

\* a success outcome is applied in this step to transaction k, in processing:
\* by the STK callback or by the status query
SuccessApplied(k) ==
    \E j \in BagToSet(jobs) :
        /\ j.batch[1].pk = k
        /\ txns[k].status = "processing"
        /\ \/ j.pc = "callback" /\ j.event.result_code = 0 /\ CallbackApply(j)
           \/ /\ j.pc = "poll"
              /\ PollApply(j, [code |-> "0", has_params |-> TRUE])

\* C7: a success applied to a processing transaction completes it with the
\* provider's receipt, pays the order with that receipt, and confirms the
\* order if and only if it was pending.
C7_SuccessOutcome ==
    [][\A k \in 1..Len(txns) :
          SuccessApplied(k)
          => LET o == txns[k].order
                 receipt == ReceiptOf(txns[k].checkout_request_id)
             IN /\ txns'[k].status = "completed"
                /\ txns'[k].mpesa_receipt_number = receipt
                /\ orders'[o].payment_status = "paid"
                /\ orders'[o].payment_id = receipt
                /\ orders'[o].status = "confirmed"
                       <=> orders[o].status \in {"pending", "confirmed"}
                /\ orders[o].status # "pending"
                       => orders'[o].status = orders[o].status]_vars

\* C7, reached: a success callback completed a transaction and paid and
\* confirmed its pending order
C7_PaidAndConfirmed ==
    \E n \in 1..Len(callbacks) :
        /\ callbacks[n].raw_payload.result_code = 0
        /\ callbacks[n].processing_error = "exception"
        /\ LET t == txns[callbacks[n].transaction]
           IN /\ t.status = "completed"
              /\ t.mpesa_receipt_number = ReceiptOf(t.checkout_request_id)
              /\ orders[t.order].status = "confirmed"
              /\ orders[t.order].payment_status = "paid"
              /\ orders[t.order].payment_id = t.mpesa_receipt_number

\* a failure or timeout outcome is applied in this step to transaction k
FailureApplied(k) ==
    \E j \in BagToSet(jobs) :
        /\ j.batch[1].pk = k
        /\ \/ j.pc = "callback" /\ j.event.result_code # 0 /\ CallbackApply(j)
           \/ \E resp \in QueryResponses :
                 /\ resp.code \in {"1", "1032", "1037"}
                 /\ PollApply(j, resp) \/ SweepStep(j, resp)

\* no transaction of order o other than k is pending or processing
NoOtherLive(o, k) ==
    \A i \in 1..Len(txns) :
        (i # k /\ txns[i].order = o) => ~is_pending(txns[i])

\* C8: a failure or timeout applied to the only live transaction of a pending
\* order leaves the transaction failed or timed out and cancels the order.
C8_FailureCancelsOrder ==
    [][\A k \in 1..Len(txns) :
          (/\ FailureApplied(k)
           /\ orders[txns[k].order].status = "pending"
           /\ NoOtherLive(txns[k].order, k))
          => /\ txns'[k].status \in {"failed", "timeout"}
             /\ orders'[txns[k].order].status = "cancelled"]_vars

\* C9: under a fairly scheduled sweep, every transaction in processing
\* eventually leaves processing.
C9_LeavesProcessing ==
    \A k \in 1..MaxTxns :
        (k <= Len(txns) /\ txns[k].status = "processing")
        ~> (k <= Len(txns) /\ txns[k].status # "processing")

\* the callback that delivers the outcome of a provider status response
AsCallback(cid, resp) ==
    [checkout_request_id |-> cid, result_code |-> ToInt(resp.code)]

\* C10: a terminal outcome seen by the status query or the sweep leaves the
\* transaction status and the order status and payment status that the
\* callback delivering the same outcome leaves.
C10_PollLikeCallback ==
    [][\A j \in BagToSet(jobs), resp \in QueryResponses :
          (/\ j.pc \in {"poll", "sweep"}
           /\ resp.code \in {"0", "1", "1032", "1037"}
           /\ resp.has_params
           /\ txns[j.batch[1].pk].status = "processing"
           /\ PollApply(j, resp) \/ SweepStep(j, resp))
          => LET k == j.batch[1].pk
                 o == txns[k].order
                 saved == callback_saved(txns[k],
                              AsCallback(txns[k].checkout_request_id, resp))
                 order == IF resp.code = "0"
                          THEN paid_order(orders[o], saved) ELSE orders[o]
             IN /\ txns'[k].status = saved.status
                /\ orders'[o].status = order.status
                /\ orders'[o].payment_status = order.payment_status]_vars

\* ------------------------------------------------------------ order claims
RECURSIVE Total(_)
Total(items) == IF items = <<>> THEN 0 ELSE Head(items) + Total(Tail(items))

\* the row cannot take every line item: reserve_stock fails for one of them
ReservationFails(s, items) ==
    items_stock("reserve", s, items).reserved_quantity
        < s.reserved_quantity + Total(items)

\* the step saves order o out of pending into confirmed or processing, the
\* change on which the line items are reserved
ReservationStep(o) ==
    /\ orders[o].status = "pending"
    /\ orders'[o].status \in {"confirmed", "processing"}

SaleRows(rows) == {i \in 1..Len(rows) : rows[i].movement_type = "sale"}

LegalTransition(old_status, new_status) ==
    \/ old_status = "pending" /\ new_status \in {"confirmed", "cancelled"}
    \/ old_status = "confirmed" /\ new_status = "processing"
    \/ old_status = "processing" /\ new_status = "shipped"
    \/ old_status = "shipped" /\ new_status = "delivered"
    \/ old_status \notin {"delivered", "cancelled", "refunded"}
          /\ new_status = "on_hold"
    \/ old_status = "on_hold"
          /\ new_status \notin {"delivered", "cancelled", "refunded"}
    \/ old_status \notin {"delivered", "cancelled", "refunded", "shipped"}
          /\ new_status = "cancelled"
    \/ old_status = "delivered" /\ new_status = "refunded"

\* C13: an order's status changes only along the legal transitions; in
\* particular nothing moves it out of cancelled or refunded, nor out of
\* delivered except to refunded.
C13_LegalTransitionsOnly ==
    [][\A o \in OrderIds :
          orders'[o].status # orders[o].status
              => LegalTransition(orders[o].status, orders'[o].status)]_vars

TerminalOrder == {"delivered", "cancelled", "refunded"}

C16_HistoryFollowsStatus ==
    [][/\ \A o \in OrderIds :
             orders'[o].status # orders[o].status
                 => history' = Append(history,
                                      StatusHistory(o, orders[o].status,
                                                    orders'[o].status))
       /\ (\A o \in OrderIds : orders'[o].status = orders[o].status)
             => history' = history]_vars

\* C17: reserve_stock(q) on a stock record succeeds exactly when
\* quantity - reserved - damaged >= q; on success reserved_quantity grows by
\* exactly q and quantity and damaged_quantity stay; on failure the record
\* is unchanged.  Stated on the instance a reserve request loaded and on
\* what the request saves.
C17_ReserveIffAvailable ==
    [][\A c \in Callers :
          req[c].pc = "loaded" /\ req'[c].pc = "done"
              => LET s == req[c].inst
                     q == req[c].quantity
                     enough == s.quantity - s.reserved_quantity
                                   - s.damaged_quantity >= q
                 IN /\ req'[c].ok <=> enough
                    /\ enough =>
                          /\ req'[c].inst =
                                [quantity |-> s.quantity,
                                 reserved_quantity |-> s.reserved_quantity + q,
                                 damaged_quantity |-> s.damaged_quantity]
                          /\ stock' = req'[c].inst
                    /\ ~enough => req'[c].inst = s /\ stock' = stock]_vars

\* one request was granted and another refused, on a row with damaged units
C17_GrantedAndRefused ==
    \E c1, c2 \in Callers :
        /\ req[c1].pc = "done" /\ req[c1].ok
        /\ req[c2].pc = "done" /\ ~req[c2].ok
        /\ stock.damaged_quantity > 0
        /\ stock.reserved_quantity >= req[c1].quantity

\* ------------------------------------------------------- initiation claims
\* the row an initiation has just created
Created == txns'[Len(txns')]

\* C18: payment initiation creates a new transaction; when the call
\* returns the transaction is in processing with the checkout request id
\* stored if the provider accepted the request, and in failed with the error
\* recorded if the provider rejected it or a network call of the initiation
\* failed.
C18_InitiationOutcome ==
    [][\A o \in OrderIds, answer \in InitiationAnswers \ {"no_configuration"} :
          InitiatePayment(o, answer)
              => /\ Len(txns') = Len(txns) + 1
                 /\ Created.order = o
                 /\ answer = "accepted"
                       => /\ Created.status = "processing"
                          /\ Created.checkout_request_id # 0
                 /\ answer = "rejected"
                       => /\ Created.status = "failed"
                          /\ Created.result_code # Null
                 /\ answer \in {"network_error", "timeout", "token_error"}
                       => Created.status = "failed"]_vars

\* C19: when the outbound initiation call times out, the transaction is left
\* in processing, where the sweep selects it.
C19_TimeoutStaysProcessing ==
    [][\A o \in OrderIds :
          InitiatePayment(o, "timeout") => Created.status = "processing"]_vars

\* C20: a failed initiation (rejection, network error, missing
\* configuration) never cancels the order: the order's status and
\* payment_status are what they were, pending stays pending, and a new
\* initiation for the order is still accepted.
C20_FailureKeepsOrder ==
    [][\A o \in OrderIds, answer \in InitiationAnswers \ {"accepted"} :
          InitiatePayment(o, answer)
              => /\ orders'[o].status = orders[o].status
                 /\ orders'[o].payment_status = orders[o].payment_status
                 /\ can_initiate(orders'[o])]_vars

\* a pending order whose first initiation failed and for which a second
\* transaction was created afterwards
C20_PendingAfterFailure ==
    \E o \in OrderIds :
        /\ Len(txns) = 2
        /\ txns[1].order = o /\ txns[1].status = "failed"
        /\ txns[2].order = o /\ txns[2].status = "processing"
        /\ txns[2].checkout_request_id # 0
        /\ orders[o].status = "pending"
        /\ orders[o].payment_status = "pending"

\* --------------------------------------------------------- endpoint claims
\* C21: the callback endpoint answers every request with the fixed
\* acknowledgement (result code 0, Accepted), whatever happened while the
\* request was handled: unknown transaction, malformed payload, duplicate
\* callback, or a failure while logging or applying it.
C21_AlwaysAcknowledged ==
    http.endpoint = "callback" => http = Accepted("callback")

\* the provider query of a status request failed or gave no result code
QueryFailed(resp) == resp.code \in {"none", "error"}

\* C22: a status query for an existing transaction returns the stored
\* status: when the provider query fails or carries no result code, the
\* request is answered without an error, with the status the row has, and
\* the row is left as it was.
C22_BestKnownStatus ==
    [][\A cid \in 1..MaxTxns, resp \in QueryResponses :
          /\ CheckPaymentStatus(cid, resp)
          /\ QueryFailed(resp)
          /\ Lookup(cid) # {}
          => /\ txns' = txns
             /\ orders' = orders
             /\ http'.status_code = 200
             /\ http'.body[1] = txns[Found(cid)].status]_vars

\* a status request for a processing transaction was answered with
\* "processing" and the transaction is still processing
C22_AnsweredProcessing ==
    \E k \in 1..Len(txns) :
        /\ txns[k].status = "processing"
        /\ txns[k].checkout_request_id # 0
        /\ http = StatusResponse(txns[k])

\* C23: callers that ask for the access token while no valid token is
\* cached share one refresh: at most one token request is sent to the
\* provider per expiry, and every caller receives that token.
C23_OneRefresh ==
    /\ token.sent <= 1
    /\ \A c1, c2 \in Callers :
          token.callers[c1].pc = "done" /\ token.callers[c2].pc = "done"
              => token.callers[c1].token = token.callers[c2].token

\* C24: a checkout with a line item that asks for more than the product's
\* stock is answered 400 by validation; no order (with its items), no payment
\* transaction is created and neither the product's nor the warehouse row's
\* counters change.
C24_ExceedsStock(items) ==
    \E i \in 1..Len(items) : items[i] > product.stock_quantity

C24_Rejection ==
    /\ http' = BadRequest("checkout")
    /\ UNCHANGED <<stock, product, placed, txns, orders>>

C25_LowStockAlertCurrent ==
    [][(stock'.quantity # stock.quantity
           /\ 0 < stock'.quantity /\ stock'.quantity <= ReorderPoint)
          => Alert("low_stock", stock'.quantity, ReorderPoint) \in alerts']_vars

\* C26: release_reservation(q) takes min(q, reserved_quantity) off
\* reserved_quantity, which stays non-negative, and leaves quantity and
\* damaged_quantity as they were; with nothing reserved the row is unchanged.
C26_Released(q) ==
    LET taken == IF q < stock.reserved_quantity THEN q
                 ELSE stock.reserved_quantity
    IN /\ stock'.reserved_quantity = stock.reserved_quantity - taken
       /\ stock'.reserved_quantity >= 0
       /\ stock'.quantity = stock.quantity
       /\ stock'.damaged_quantity = stock.damaged_quantity
       /\ stock.reserved_quantity = 0 => stock' = stock

C26_ReleaseClamped ==
    [][\A q \in 1..MaxQty : Release(q) => C26_Released(q)]_vars

\* units were released from a row no fulfilment has touched: the on-hand
\* quantity is still the largest one and more is available than at the start
C26_ReleasedAll ==
    /\ stock.quantity = MaxQty
    /\ stock.reserved_quantity = 0
    /\ available_quantity(stock) > avail0

\* C27: fulfill_reservation(q) takes exactly q off reserved_quantity and off
\* quantity (and the fulfilment of an order line records it as one sale
\* movement of -q between the quantity before and after).
C27_Fulfilled(q) ==
    /\ stock'.reserved_quantity = stock.reserved_quantity - q
    /\ stock'.quantity = stock.quantity - q

C27_FulfillExact ==
    [][\A q \in 1..MaxQty : Fulfill(q) => C27_Fulfilled(q)]_vars

\* C28: a retry the provider accepts adds one new transaction and leaves the
\* original's status, checkout request id, result code and receipt as they
\* were, its retry counter going up by one; the new transaction continues the
\* original's retry count.
C28_Retried(k) ==
    LET new == txns'[Len(txns')]
    IN /\ Len(txns') = Len(txns) + 1
       /\ txns'[k] = [txns[k] EXCEPT !.retry_count = txns[k].retry_count + 1]
       /\ new.status = "processing"
       /\ new.retry_count = txns'[k].retry_count

C28_RetryKeepsLineage ==
    [][\A k \in 1..Len(txns) : Retry(k, "accepted") => C28_Retried(k)]_vars

\* C29: a value of checkout_request_id is held by at most one transaction,
\* so that a lookup by it (the callback's, the status query's) matches no
\* transaction or one; 0 stands for the empty string the column holds until
\* the provider has accepted the request.
C29_LookupMatchesOne ==
    \A cid \in 0..MaxTxns : Cardinality(Lookup(cid)) <= 1

\* C30: find_warehouse_with_stock(product, q) returns an active warehouse
\* with available >= q of the highest priority among those, the one with the
\* smallest identifier when several share that priority, and None exactly
\* when no active warehouse has q available.
C30_Eligible(q) ==
    {i \in 1..Len(warehouses) :
        warehouses[i].is_active /\ available(warehouses[i]) >= q}

C30_BestWarehouse ==
    picked # NotPicked =>
        LET q == picked.quantity_needed
            w == picked.warehouse
        IN /\ w = 0 <=> C30_Eligible(q) = {}
           /\ w # 0 =>
                /\ w \in C30_Eligible(q)
                /\ \A j \in C30_Eligible(q) :
                      \/ warehouses[j].priority < warehouses[w].priority
                      \/ /\ warehouses[j].priority = warehouses[w].priority
                         /\ w <= j

\* C31: split_order_across_warehouses(product, q) takes from active
\* warehouses in descending priority: every allocation is between 1 and the
\* warehouse's available quantity, a warehouse is used only when every
\* warehouse of higher priority with stock is drained, the allocations sum
\* to q exactly when the call reports success, and it reports failure
\* exactly when the active warehouses hold less than q in total; the stock
\* rows are left as they are.
RECURSIVE C31_Sum(_)
C31_Sum(allocation) ==
    IF allocation = <<>> THEN 0
    ELSE Head(allocation).quantity + C31_Sum(Tail(allocation))

C31_Taken(w) ==
    C31_Sum(SelectSeq(split.allocation, LAMBDA a : a.warehouse = w))

RECURSIVE C31_TotalAvailable(_)
C31_TotalAvailable(ws) ==
    IF ws = {} THEN 0
    ELSE LET w == CHOOSE x \in ws : TRUE
         IN available_quantity(warehouses[w]) + C31_TotalAvailable(ws \ {w})

C31_Active == {i \in 1..Len(warehouses) : warehouses[i].is_active}

C31_GreedySplit ==
    split # NotSplit =>
        /\ \A i \in 1..Len(split.allocation) :
              LET a == split.allocation[i]
              IN /\ a.warehouse \in C31_Active
                 /\ 1 <= a.quantity
                 /\ a.quantity <= available_quantity(warehouses[a.warehouse])
                 /\ \A j \in 1..Len(split.allocation) :
                       j # i => split.allocation[j].warehouse # a.warehouse
                 /\ \A h \in C31_Active :
                       warehouses[h].priority
                             > warehouses[a.warehouse].priority
                          => C31_Taken(h) = available_quantity(warehouses[h])
        /\ split.ok <=> C31_Sum(split.allocation) = split.quantity_needed
        /\ ~split.ok <=>
              C31_TotalAvailable(C31_Active) < split.quantity_needed

C31_NoReservation == [][split' # split => warehouses' = warehouses]_vars

C31_SplitAcrossWarehouses == []C31_GreedySplit /\ C31_NoReservation

\* a quantity no single warehouse holds was covered by two warehouses
C31_TwoWarehouses ==
    /\ split.ok
    /\ Len(split.allocation) = 2
    /\ \A i \in 1..Len(warehouses) :
          available_quantity(warehouses[i]) < split.quantity_needed

\* C32: an operation that changes the on-hand quantity of the stock row (a
\* manual adjustment, a bulk update, a stock-count correction) appends
\* exactly one StockMovement whose quantity_before and quantity_after are the
\* row's quantity before and after and differ by the movement's quantity;
\* the movements written earlier stay as they are.
C32_Operation ==
    \/ \E adjustment \in (0 - MaxQty)..MaxQty : AdjustStock(adjustment)
    \/ \E new_quantity \in 0..MaxQty : BulkUpdate(new_quantity)
    \/ \E expected_quantity \in 0..MaxQty, counted_quantity \in 0..MaxQty :
          StockCount(expected_quantity, counted_quantity)

C32_Recorded ==
    /\ Len(movements') = Len(movements) + 1
    /\ SubSeq(movements', 1, Len(movements)) = movements
    /\ LET m == movements'[Len(movements')]
       IN /\ m.quantity_before = stock.quantity
          /\ m.quantity_after = stock'.quantity
          /\ m.quantity_after = m.quantity_before + m.quantity

C32_EveryChangeRecorded ==
    [][(stock'.quantity # stock.quantity /\ C32_Operation)
          => C32_Recorded]_vars

\* C33: an outcome is applied to a transaction only after it was written to
\* the callback log: every transaction that an outcome completed, cancelled
\* or timed out has a row of the log that refers to it.
C33_AppliedOutcomeLogged ==
    \A k \in 1..Len(txns) :
        txns[k].status \in {"completed", "cancelled", "timeout"}
            => \E i \in 1..Len(callbacks) : callbacks[i].transaction = k

\* C34: checkout reserves the line items of the order it creates before the
\* payment is initiated: the step that creates a pending order (and its
\* transaction) raises reserved_quantity by the quantities of its items.
C34_CheckoutReserves ==
    [][Len(placed') > Len(placed)
          => stock'.reserved_quantity =
                 stock.reserved_quantity + Total(placed'[Len(placed')].items)]_vars

\* C39: no transaction's retry_count exceeds max_retries, and a retry
\* request on a transaction that is not failed or has used up its retries
\* creates no transaction and changes none.
C39_WithinRetries ==
    \A k \in 1..Len(txns) : txns[k].retry_count <= max_retries

C39_RefusedChangesNothing ==
    [][\A k \in 1..Len(txns), answer \in InitiationAnswers :
          (RetryRequest(k, answer)
              /\ (txns[k].status # "failed"
                     \/ txns[k].retry_count >= max_retries))
             => UNCHANGED <<txns, orders, history>>]_vars

C39_RetriesBounded == []C39_WithinRetries /\ C39_RefusedChangesNothing

\* a transaction that has used up its retries was asked to retry once more
C39_OutOfRetries ==
    /\ http = RetryRefused
    /\ \E k \in 1..Len(txns) :
          txns[k].status = "failed" /\ txns[k].retry_count = max_retries

\* ------------------------------------------------------ save chain claims
\* C36: after every operation that changes stock the product's
\* stock_quantity equals the sum of quantity over its warehouse stock rows
\* (here the one row the product has), the fixed point the chain of saves
\* between the product and the row is to reach
C36_ProductMatchesRows == product.stock_quantity = stock.quantity

\* ------------------------------------------------------ order life claims
RECURSIVE C37_Units(_)
C37_Units(items) ==
    IF items = <<>> THEN 0 ELSE Head(items) + C37_Units(Tail(items))

RECURSIVE C37_Shipped(_)
C37_Shipped(rows) ==
    IF rows = <<>> THEN 0
    ELSE (IF Head(rows).status = "shipped" THEN C37_Units(Head(rows).items)
          ELSE 0) + C37_Shipped(Tail(rows))

\* the on-hand quantity of the row before any order was created
C37_OnHandBefore ==
    avail0 + stock.reserved_quantity + stock.damaged_quantity

C37_Settled ==
    /\ placed # <<>>
    /\ \A i \in 1..Len(placed) : placed[i].status \in {"shipped", "cancelled"}

\* C37: once every order is shipped or cancelled, the on-hand quantity is
\* the quantity before the orders less the ordered quantities of the shipped
\* orders, taken off once; a cancelled order has left it as it was
C37_StockConserved ==
    C37_Settled => stock.quantity = C37_OnHandBefore - C37_Shipped(placed)

\* -------------------------------------------------------- transfer claims
RECURSIVE C35_Pending(_)
C35_Pending(rows) ==
    IF rows = <<>> THEN 0
    ELSE (IF Head(rows).status = "pending" THEN Head(rows).quantity ELSE 0)
         + C35_Pending(Tail(rows))

\* C35: the reserved_quantity of the source row is the sum of the item
\* quantities of the approved (pending) transfers out of its warehouse, no
\* order holding a reservation on the row
C35_ReservedIsHeld == stock.reserved_quantity = C35_Pending(transfers)

C38_Legal ==
    {<<"draft", "pending">>, <<"pending", "in_transit">>,
     <<"in_transit", "received">>, <<"draft", "cancelled">>,
     <<"pending", "cancelled">>}

C38_Step(t) ==
    LET old == transfers[t].status
        new == transfers'[t].status
        q == transfers[t].quantity
    IN /\ old # new => <<old, new>> \in C38_Legal
       /\ (old = "draft" /\ new = "pending") =>
              stock'.reserved_quantity = stock.reserved_quantity + q
       /\ (old = "pending" /\ new = "cancelled") =>
              stock'.reserved_quantity = stock.reserved_quantity - q
       /\ (old = "pending" /\ new = "in_transit") =>
              /\ stock'.quantity = stock.quantity - q
              /\ stock'.reserved_quantity = stock.reserved_quantity - q

C38_Refused ==
    /\ http'.status_code = 400
    /\ http'.endpoint \in {"approve", "ship", "receive", "cancel"}

\* C38: a transfer's status moves only draft -> pending -> in_transit ->
\* received or draft/pending -> cancelled; a request that is refused changes
\* neither the transfers nor a stock row; approving reserves the item's
\* quantity on the source row, cancelling a pending transfer releases it and
\* shipping takes exactly the item's quantity off on-hand and reserved
C38_TransferLifecycle ==
    [][/\ \A t \in 1..Len(transfers) : C38_Step(t)
       /\ C38_Refused => UNCHANGED <<transfers, stock, to_stock>>]_vars

=============================================================================
